---- MODULE Spec2Model ----
(***************************************************************************)
(* Model of the CLI chatbot of src/cli_chatbot: the ConversationManager    *)
(* (bounded session history kept in Python list objects), the ChatBot      *)
(* caller loop with its reserved commands, the start-up path (config       *)
(* import, provider resolution and construction) and the chat method of    *)
(* the three providers.  Each part has its own specification over the one  *)
(* set of variables: SpecCM, SpecCMEdit, Spec, SpecStart, SpecGemini,       *)
(* SpecSimple, SpecSimpleLoop, SpecHF.                                     *)
(*                                                                         *)
(* Python objects are modelled with identity: a list object is an index    *)
(* into `heap`, a turn dict is an index into `turns`.  Texts are sequences *)
(* of one-character strings so that lower() and strip() are computed.      *)
(***************************************************************************)
EXTENDS Integers, Sequences, FiniteSets, TLC

VARIABLES
    \* ---- ConversationManager (chatbot.py:42-63) and the Python heap ----
    history,      \* self.history: the id of a list object (0: no session yet)
    max_history,  \* self.max_history
    heap,         \* list objects: heap[id] is a sequence of turn ids
    turns,        \* dict objects: turns[id] = [role, content]
    \* ---- a client of ConversationManager (as test_chatbot.py uses it) ----
    held,         \* id of the list the last get_history returned (0: none)
    log,          \* the add_message / clear_history calls made so far
    lastOp,       \* the last call or client mutation
    ops,          \* number of calls and mutations the client has made
    \* ---- the program: start-up and ChatBot.chat_loop ----
    pc,           \* position of the process
    entry,        \* "main": chatbot.py run as a script; "direct": ChatBot(p).chat_loop()
    flag,         \* value of --provider ("<none>": not given)
    envProvider,  \* AI_PROVIDER ("<unset>": not set)
    envMaxHistory,\* MAX_HISTORY (<<>>: not set)
    envTemperature,\* TEMPERATURE in tenths (<<>>: not set)
    envApiKey,    \* GOOGLE_API_KEY (<<>>: not set)
    world,        \* what is installed and loadable on this machine
    configProvider,\* config.ai_provider ("<none>" before config is loaded)
    configTemperature,\* config.temperature in tenths (-1 before config is loaded)
    provider,     \* kind of the constructed provider ("<none>": none)
    attempted,    \* provider class whose constructor main called ("<none>": none)
    hfLoads,      \* the models HuggingFaceProvider._initialize_model tried to load
    running,      \* ChatBot.running
    exitCode,     \* process exit status (-1: still running)
    prompts,      \* number of Prompt.ask calls
    lastInput,    \* the line the last Prompt.ask returned
    signal,       \* "none", "eof" or "interrupt": how the last prompt/call ended
    calls,        \* number of provider.chat calls
    callMessage,  \* message argument of the last provider.chat call
    callHistory,  \* history argument of the last provider.chat call (a list id)
    outcome,      \* how the last provider.chat call ended
    console,      \* kind of the last message printed
    \* ---- one provider.chat call, looked at on its own ----
    ppc,          \* position inside the provider call
    message,      \* the message argument
    chatHistory,  \* the history argument: a sequence of turn dicts
    response,     \* what chat returned
    picked,       \* the pool entry random.choice returned (<<>>: none)
    generated_text,\* outputs[0]["generated_text"] of the local model
    api_error,    \* str(e) of the exception the remote call raised
    clock,        \* time.time(), in ticks
    last_request_time,\* GeminiProvider.last_request_time, in ticks
    current_time, \* the local current_time of _rate_limit
    requests      \* the remote requests made so far

cmVars == <<history, max_history, heap, turns>>
clientVars == <<held, log, lastOp, ops>>
envVars == <<entry, flag, envProvider, envMaxHistory, envTemperature, envApiKey, world>>
startVars == <<configProvider, configTemperature, provider, attempted, hfLoads, exitCode>>
loopVars == <<running, prompts, lastInput, signal, calls, callMessage,
              callHistory, outcome, console>>
providerVars == <<ppc, message, chatHistory, response, picked, generated_text, api_error,
                  clock, last_request_time, current_time, requests>>
progVars == <<pc, envVars, startVars, loopVars, providerVars>>
vars == <<cmVars, clientVars, progVars>>

(***************************************************************************)
(* Bounds of the model.                                                    *)
(***************************************************************************)
MaxN == 3        \* largest session bound tried
MaxOps == 6      \* calls and list mutations of the ConversationManager client
MaxReads == 3    \* Prompt.ask calls of one chat loop

(***************************************************************************)
(* Python helpers.                                                         *)
(***************************************************************************)
Min(a, b) == IF a < b THEN a ELSE b
Max(a, b) == IF a > b THEN a ELSE b

\* seq[start:] with Python's rules for a negative or too large start.
PySliceFrom(seq, start) ==
    LET n == Len(seq)
        lo == IF start < 0 THEN Max(n + start, 0) ELSE Min(start, n)
    IN  [i \in 1..(n - lo) |-> seq[lo + i]]

\* list.pop(i) for a valid 1-based position, and list.reverse().
PyRemoveAt(seq, i) == [j \in 1..(Len(seq) - 1) |-> IF j < i THEN seq[j] ELSE seq[j + 1]]
PyReverse(seq) == [j \in 1..Len(seq) |-> seq[Len(seq) + 1 - j]]

(***************************************************************************)
(* ConversationManager.  Each method is given as the new values of the     *)
(* fields and of the heap; `ret` is the id of the list it returns.         *)
(***************************************************************************)
\* append without the trim
add_message_noTrim(role, content) ==
    [history |-> history,
     heap    |-> [heap EXCEPT ![history] = Append(@, Len(turns) + 1)],
     turns   |-> Append(turns, [role |-> role, content |-> content])]

\* trim keeps the oldest entries instead of the newest
add_message_keepOldest(role, content) ==
    LET t  == Len(turns) + 1
        h1 == [heap EXCEPT ![history] = Append(@, t)]
        ts == Append(turns, [role |-> role, content |-> content])
    IN  IF Len(h1[history]) > max_history
        THEN [history |-> Len(h1) + 1,
              heap    |-> Append(h1, SubSeq(h1[history], 1, max_history)),
              turns   |-> ts]
        ELSE [history |-> history, heap |-> h1, turns |-> ts]

add_message(role, content) ==
    LET t  == Len(turns) + 1
        \* self.history.append({...}): a new dict, appended in place
        h1 == [heap EXCEPT ![history] = Append(@, t)]
        ts == Append(turns, [role |-> role, content |-> content])
    IN  IF Len(h1[history]) > max_history
        THEN \* self.history = self.history[-self.max_history:]: a new list
             [history |-> Len(h1) + 1,
              heap    |-> Append(h1, PySliceFrom(h1[history], 0 - max_history)),
              turns   |-> ts]
        ELSE [history |-> history, heap |-> h1, turns |-> ts]

\* clear that leaves the list as it is
clear_history_noop == [history |-> history, heap |-> heap]

\* self.history = []: the field is bound to a new, empty list
clear_history == [history |-> Len(heap) + 1, heap |-> Append(heap, <<>>)]

\* returns the internal list itself
get_history_noCopy == [ret |-> history, heap |-> heap]

\* return self.history.copy(): a new list holding the same dicts
get_history == [ret |-> Len(heap) + 1, heap |-> Append(heap, heap[history])]

\* The turn records a list object holds, in order (id 0: a dict of the client's
\* own, which add_message never stores).
ForeignTurn == [role |-> "client", content |-> <<>>]
TurnsOf(h, l) ==
    [i \in 1..Len(h[l]) |-> IF h[l][i] = 0 THEN ForeignTurn ELSE turns[h[l][i]]]
\* What the session holds now.
Session == IF history = 0 THEN <<>> ELSE TurnsOf(heap, history)
\* What a get_history call made now would return.
Snapshot == TurnsOf(get_history.heap, get_history.ret)

(***************************************************************************)
(* A client that calls the three methods in any order, keeps the list the  *)
(* last get_history handed it, and mutates that list.                      *)
(***************************************************************************)
TurnChoices == {<<"user", <<"A">>>>, <<"assistant", <<"B">>>>}

CallAdd ==
    \E c \in TurnChoices :
        LET r == add_message(c[1], c[2]) IN
        /\ ops < MaxOps
        /\ history' = r.history /\ heap' = r.heap /\ turns' = r.turns
        /\ log' = Append(log, [op |-> "add", role |-> c[1], content |-> c[2]])
        /\ lastOp' = "add" /\ ops' = ops + 1
        /\ UNCHANGED <<max_history, held, progVars>>

CallClear ==
    /\ ops < MaxOps
    /\ history' = clear_history.history /\ heap' = clear_history.heap
    /\ log' = Append(log, [op |-> "clear", role |-> "", content |-> <<>>])
    /\ lastOp' = "clear" /\ ops' = ops + 1
    /\ UNCHANGED <<max_history, turns, held, progVars>>

CallGet ==
    /\ ops < MaxOps
    /\ heap' = get_history.heap
    /\ held' = get_history.ret
    /\ lastOp' = "get" /\ ops' = ops + 1
    /\ UNCHANGED <<history, max_history, turns, log, progVars>>

\* returned.append(x), x a dict of the client's own
ClientAppend ==
    /\ ops < MaxOps /\ held # 0
    /\ heap' = [heap EXCEPT ![held] = Append(@, 0)]
    /\ lastOp' = "append" /\ ops' = ops + 1
    /\ UNCHANGED <<history, max_history, turns, held, log, progVars>>

\* returned.pop(i)
ClientRemove ==
    \E i \in 1..(IF held = 0 THEN 0 ELSE Len(heap[held])) :
        /\ ops < MaxOps
        /\ heap' = [heap EXCEPT ![held] = PyRemoveAt(@, i)]
        /\ lastOp' = "remove" /\ ops' = ops + 1
        /\ UNCHANGED <<history, max_history, turns, held, log, progVars>>

\* returned.reverse()
ClientReverse ==
    /\ ops < MaxOps /\ held # 0
    /\ Len(heap[held]) > 1
    /\ heap' = [heap EXCEPT ![held] = PyReverse(@)]
    /\ lastOp' = "reverse" /\ ops' = ops + 1
    /\ UNCHANGED <<history, max_history, turns, held, log, progVars>>

\* A machine with both optional libraries installed and every model loadable.
GoodWorld == [geminiLib |-> TRUE, geminiInit |-> TRUE, hfLib |-> TRUE,
              primaryLoads |-> TRUE, fallbackLoads |-> TRUE]

\* No provider.chat call is being looked at on its own.
ProvidersIdle ==
    /\ ppc = "idle" /\ message = <<>> /\ chatHistory = <<>> /\ response = <<>>
    /\ picked = <<>> /\ generated_text = <<>> /\ api_error = <<>>
    /\ clock = 0 /\ last_request_time = 0 /\ current_time = 0 /\ requests = <<>>

\* The program part at rest (used by the client specification).
ProgIdle ==
    /\ pc = "Client" /\ entry = "direct" /\ flag = "<none>"
    /\ envProvider = "<unset>" /\ envMaxHistory = <<>>
    /\ envTemperature = <<>> /\ envApiKey = <<>> /\ world = GoodWorld
    /\ configProvider = "<none>" /\ provider = "<none>" /\ attempted = "<none>"
    /\ configTemperature = -1 /\ hfLoads = <<>>
    /\ running = TRUE /\ exitCode = -1 /\ prompts = 0 /\ lastInput = <<>>
    /\ signal = "none" /\ calls = 0 /\ callMessage = <<>> /\ callHistory = 0
    /\ outcome = "none" /\ console = "none"

\* ConversationManager(max_history=N): self.history = [], self.max_history = N
InitCM ==
    /\ max_history \in 0..MaxN
    /\ history = 1 /\ heap = << <<>> >> /\ turns = <<>>
    /\ held = 0 /\ log = <<>> /\ lastOp = "init" /\ ops = 0
    /\ ProgIdle
    /\ ProvidersIdle

NextCM ==
    \/ CallAdd
    \/ CallClear
    \/ CallGet
    \/ ClientAppend
    \/ ClientRemove
    \/ ClientReverse

SpecCM == InitCM /\ [][NextCM]_vars

(***************************************************************************)
(* Texts: str.lower() and str.strip().                                     *)
(***************************************************************************)
UpperCase == <<"A", "B", "C", "D", "E", "F", "G", "H", "I", "J", "K", "L", "M",
               "N", "O", "P", "Q", "R", "S", "T", "U", "V", "W", "X", "Y", "Z">>
LowerCase == <<"a", "b", "c", "d", "e", "f", "g", "h", "i", "j", "k", "l", "m",
               "n", "o", "p", "q", "r", "s", "t", "u", "v", "w", "x", "y", "z">>
IsSpace(c) == c \in {" ", "\t", "\n"}
LowerChar(c) ==
    IF \E i \in 1..26 : UpperCase[i] = c
    THEN LowerCase[CHOOSE i \in 1..26 : UpperCase[i] = c]
    ELSE c
\* (SubSeq has the characters computed once, not at every later access)
lower(s) == SubSeq([i \in 1..Len(s) |-> LowerChar(s[i])], 1, Len(s))
strip(s) ==
    LET keep == {i \in 1..Len(s) : ~IsSpace(s[i])}
    IN  IF keep = {} THEN <<>>
        ELSE SubSeq(s, CHOOSE i \in keep : \A j \in keep : i <= j,
                       CHOOSE i \in keep : \A j \in keep : j <= i)
\* sub in text (Python's `in` on strings)
Contains(text, sub) ==
    \E i \in 0..(Len(text) - Len(sub)) : SubSeq(text, i + 1, i + Len(sub)) = sub

W_exit == <<"e", "x", "i", "t">>
W_quit == <<"q", "u", "i", "t">>
W_clear == <<"c", "l", "e", "a", "r">>
W_history == <<"h", "i", "s", "t", "o", "r", "y">>
W_save == <<"s", "a", "v", "e">>
W_help == <<"h", "e", "l", "p">>
W_config == <<"c", "o", "n", "f", "i", "g">>

\* The lines Prompt.ask may return.
InEmpty == <<>>
InBlank == <<" ">>
InExit == <<"e", "x", "i", "t">>
InQuitPadded == <<" ", "Q", "u", "i", "t", " ">>
InClear == <<"C", "L", "E", "A", "R">>
InHistory == <<"h", "i", "s", "t", "o", "r", "y">>
InSave == <<"s", "a", "v", "e">>
InHelp == <<"H", "e", "l", "p">>
InConfig == <<"c", "o", "n", "f", "i", "g">>
InHi == <<"h", "i">>
InExitNow == <<"e", "x", "i", "t", " ", "n", "o", "w">>
Inputs == {InEmpty, InBlank, InExit, InQuitPadded, InClear, InHistory, InSave,
           InHelp, InConfig, InHi, InExitNow}

\* Texts a provider hands back.
ReplyText == <<"o", "k">>
WarningText == <<"!", "e", "r", "r">>

(***************************************************************************)
(* ChatBot.handle_command: the branch taken, whether the input was handled *)
(* and the value of self.running afterwards.                               *)
(***************************************************************************)
Handled(what, run) == [handled |-> TRUE, do |-> what, running |-> run]
NotHandled == [handled |-> FALSE, do |-> "none", running |-> running]

\* exit and quit print the goodbye but leave self.running set
handle_command_keepsRunning(user_input) ==
    LET command == strip(lower(user_input)) IN
    IF command \in {W_exit, W_quit} THEN Handled("exit", running)
    ELSE IF command = W_clear THEN Handled("clear", running)
    ELSE IF command = W_history THEN Handled("history", running)
    ELSE IF command = W_save THEN Handled("save", running)
    ELSE IF command = W_help THEN Handled("help", running)
    ELSE IF command = W_config THEN Handled("config", running)
    ELSE NotHandled

\* a command word anywhere in the line is taken as the command
handle_command_substring(user_input) ==
    LET command == strip(lower(user_input)) IN
    IF Contains(command, W_exit) \/ Contains(command, W_quit) THEN Handled("exit", FALSE)
    ELSE IF Contains(command, W_clear) THEN Handled("clear", running)
    ELSE IF Contains(command, W_history) THEN Handled("history", running)
    ELSE IF Contains(command, W_save) THEN Handled("save", running)
    ELSE IF Contains(command, W_help) THEN Handled("help", running)
    ELSE IF Contains(command, W_config) THEN Handled("config", running)
    ELSE NotHandled

\* the comparison is made on the line as typed
handle_command_caseSensitive(user_input) ==
    LET command == strip(user_input) IN
    IF command \in {W_exit, W_quit} THEN Handled("exit", FALSE)
    ELSE IF command = W_clear THEN Handled("clear", running)
    ELSE IF command = W_history THEN Handled("history", running)
    ELSE IF command = W_save THEN Handled("save", running)
    ELSE IF command = W_help THEN Handled("help", running)
    ELSE IF command = W_config THEN Handled("config", running)
    ELSE NotHandled

\* save is taken as a command that also ends the loop
handle_command_saveStops(user_input) ==
    LET command == strip(lower(user_input)) IN
    IF command \in {W_exit, W_quit} THEN Handled("exit", FALSE)
    ELSE IF command = W_clear THEN Handled("clear", running)
    ELSE IF command = W_history THEN Handled("history", running)
    ELSE IF command = W_save THEN Handled("save", FALSE)
    ELSE IF command = W_help THEN Handled("help", running)
    ELSE IF command = W_config THEN Handled("config", running)
    ELSE NotHandled

handle_command(user_input) ==
    LET command == strip(lower(user_input)) IN
    IF command \in {W_exit, W_quit} THEN Handled("exit", FALSE)
    ELSE IF command = W_clear THEN Handled("clear", running)
    ELSE IF command = W_history THEN Handled("history", running)
    ELSE IF command = W_save THEN Handled("save", running)
    ELSE IF command = W_help THEN Handled("help", running)
    ELSE IF command = W_config THEN Handled("config", running)
    ELSE NotHandled

(***************************************************************************)
(* Providers, as the caller loop sees them.                                *)
(***************************************************************************)
KnownProviders == {"simple", "gemini", "huggingface"}

\* What provider.chat can return: a reply, or (remote and local variants, in
\* their except branches) a warning text.
ChatReturns(kind) ==
    IF kind \in {"gemini", "huggingface"}
    THEN {[kind |-> "reply", text |-> ReplyText], [kind |-> "warning", text |-> WarningText]}
    ELSE {[kind |-> "reply", text |-> ReplyText]}

\* Whether provider.chat can raise an Exception.  The three variants catch every
\* Exception of their body, and their `not initialized` raise needs a provider
\* whose construction did not complete; another AIProvider implementation may
\* raise.
ChatMayRaise(kind) == kind = "custom"

(***************************************************************************)
(* Start-up: `from config import config` (chatbot.py:23) runs               *)
(* Config.load_config, then main resolves and constructs the provider.     *)
(***************************************************************************)
DefaultConfigProvider == "huggingface"   \* config.py:25
DefaultMainProvider == "simple"          \* chatbot.py:249
DefaultMaxHistory == 10                  \* config.py:29, chatbot.py:72
\* Temperatures are counted in tenths.
DefaultTemperature == 7                  \* config.py:30
TemperatureLow == 0                      \* config.py:46
TemperatureHigh == 20                    \* config.py:46
MinMaxHistory == 1                       \* config.py:43

Flags == {"<none>", "", "gemini", "bogus", "Simple"}
EnvProviders == {"<unset>", "simple", "huggingface", "bogus"}
\* An environment value is <<>> when the variable is not set, <<v>> otherwise.
EnvMaxHistories == {<<>>} \cup {<<n>> : n \in 0..MaxN}
EnvTemperatures == {<<>>, <<-1>>, <<0>>, <<20>>, <<21>>}
EnvApiKeys == {<<>>, <<"">>, <<"key">>}
GetEnv(value, default) == IF value = <<>> THEN default ELSE value[1]

\* validate_config with the two ends of the temperature range excluded
validate_config_openRange(ai_provider, maxHistory, temperature) ==
    IF ai_provider \notin KnownProviders THEN "Invalid AI_PROVIDER"
    ELSE IF maxHistory < MinMaxHistory THEN "MAX_HISTORY must be at least 1"
    ELSE IF ~(TemperatureLow < temperature /\ temperature < TemperatureHigh)
         THEN "TEMPERATURE must be between 0.0 and 2.0"
    ELSE "ok"

\* Config.validate_config: "ok", or the ValueError it raises
validate_config(ai_provider, maxHistory, temperature) ==
    IF ai_provider \notin KnownProviders THEN "Invalid AI_PROVIDER"
    ELSE IF maxHistory < MinMaxHistory THEN "MAX_HISTORY must be at least 1"
    ELSE IF ~(TemperatureLow <= temperature /\ temperature <= TemperatureHigh)
         THEN "TEMPERATURE must be between 0.0 and 2.0"
    ELSE "ok"

\* Python's truth value of a string that may be None (<<>>) or empty.
Truthy(value) == value # <<>> /\ value[1] # ""

\* Config.load_config, run when chatbot.py is imported or started
ImportConfig ==
    LET ai == IF envProvider = "<unset>" THEN DefaultConfigProvider ELSE envProvider
        v  == validate_config(ai, GetEnv(envMaxHistory, DefaultMaxHistory),
                              GetEnv(envTemperature, DefaultTemperature))
    IN  /\ pc = "Import"
        /\ IF v = "ok"
           THEN /\ configProvider' = ai
                /\ configTemperature' = GetEnv(envTemperature, DefaultTemperature)
                /\ pc' = IF entry = "main" THEN "Main" ELSE "Direct"
                \* config.py:50-51: a warning, nothing more
                /\ console' = IF ai = "gemini" /\ ~Truthy(envApiKey)
                              THEN "key_warning" ELSE console
                /\ UNCHANGED exitCode
           ELSE \* the ValueError leaves the interpreter: traceback, status 1
                /\ pc' = "Exited" /\ exitCode' = 1 /\ console' = v
                /\ UNCHANGED <<configProvider, configTemperature>>
        /\ UNCHANGED <<cmVars, clientVars, envVars, providerVars, provider, attempted,
                       hfLoads, running, prompts, lastInput, signal, calls,
                       callMessage, callHistory, outcome>>

\* main, chatbot.py:248-249: `if not provider: provider = os.getenv(...)`
resolve_provider ==
    IF flag \in {"<none>", ""}
    THEN (IF envProvider = "<unset>" THEN DefaultMainProvider ELSE envProvider)
    ELSE flag

\* an unrecognised name falls back to the rule-based variant
select_class_fallback(name) == IF name \in KnownProviders THEN name ELSE "simple"

\* main, chatbot.py:255-267: the class chosen for a name ("<unknown>": the else branch)
select_class(name) ==
    IF name = "simple" THEN "simple"
    ELSE IF name = "gemini" THEN "gemini"
    ELSE IF name = "huggingface" THEN "huggingface"
    ELSE "<unknown>"

PrimaryModel == "HF_MODEL"     \* self.model_name as configured
FallbackModel == "gpt2"        \* huggingface_provider.py:55

\* GeminiProvider.__init__ with a missing credential accepted
GeminiProvider_init_noKeyCheck(w, key) ==
    IF ~w.geminiLib THEN "ImportError"
    ELSE IF ~w.geminiInit THEN "Exception"
    ELSE "ok"

\* GeminiProvider.__init__ -> _initialize_client: "ok" or the exception raised
GeminiProvider_init(w, key) ==
    IF ~w.geminiLib THEN "ImportError"
    ELSE IF ~Truthy(key) THEN "ValueError"
    ELSE IF ~w.geminiInit THEN "Exception"
    ELSE "ok"

\* HuggingFaceProvider.__init__ that gives up after the primary model
HuggingFaceProvider_init_noFallback(w) ==
    IF ~w.hfLib THEN [result |-> "ImportError", loads |-> <<>>]
    ELSE IF w.primaryLoads THEN [result |-> "ok", loads |-> <<PrimaryModel>>]
    ELSE [result |-> "Exception", loads |-> <<PrimaryModel>>]

\* HuggingFaceProvider.__init__ -> _initialize_model: how it ends and the
\* pipeline(...) calls it made, in order
HuggingFaceProvider_init(w) ==
    IF ~w.hfLib THEN [result |-> "ImportError", loads |-> <<>>]
    ELSE IF w.primaryLoads THEN [result |-> "ok", loads |-> <<PrimaryModel>>]
    ELSE IF w.fallbackLoads
         THEN [result |-> "ok", loads |-> <<PrimaryModel, FallbackModel>>]
    ELSE [result |-> "Exception", loads |-> <<PrimaryModel, FallbackModel>>]

\* How the constructor of a provider class ends on this machine.
ConstructorResults(class) ==
    IF class = "simple" THEN {"ok"}
    ELSE IF class = "gemini" THEN {GeminiProvider_init(world, envApiKey)}
    ELSE {HuggingFaceProvider_init(world).result}

\* is_available of a provider whose constructor never set self.model or
\* self.generator
is_available_attributesUnset(kind) == kind = "simple"

\* is_available() of an instance of one of the three provider classes
is_available(kind) ==
    IF kind = "simple" THEN TRUE
    ELSE IF kind = "gemini"
         \* GEMINI_AVAILABLE and self.model is not None and self.api_key is not None
         THEN /\ world.geminiLib
              /\ GeminiProvider_init(world, envApiKey) = "ok"
              /\ envApiKey # <<>>
         \* HF_AVAILABLE and self.generator is not None
         ELSE /\ world.hfLib
              /\ HuggingFaceProvider_init(world).result = "ok"

\* provider.is_available() as chat_loop may find it; another AIProvider
\* implementation may answer either way
IsAvailableValues(kind) == IF kind = "custom" THEN {TRUE, FALSE} ELSE {is_available(kind)}

\* ChatBot.__init__: ConversationManager(max_history=int(os.getenv("MAX_HISTORY", "10")))
NewChatBot(kind) ==
    /\ provider' = kind
    /\ max_history' = GetEnv(envMaxHistory, DefaultMaxHistory)
    /\ history' = Len(heap) + 1 /\ heap' = Append(heap, <<>>)
    /\ running' = TRUE
    /\ pc' = "ChatLoop"

\* main with a name it does not know: sys.exit(1)
MainUnknown ==
    /\ pc = "Main"
    /\ select_class(resolve_provider) = "<unknown>"
    /\ console' = "unknown_provider" /\ exitCode' = 1 /\ pc' = "Exited"
    /\ UNCHANGED <<cmVars, clientVars, envVars, providerVars, configProvider,
                   configTemperature, provider, attempted, hfLoads, running,
                   prompts, lastInput, signal, calls, callMessage, callHistory,
                   outcome>>

\* main constructs the provider and then the ChatBot, or exits with status 1
MainConstruct ==
    /\ pc = "Main"
    /\ select_class(resolve_provider) # "<unknown>"
    /\ attempted' = select_class(resolve_provider)
    /\ hfLoads' = IF select_class(resolve_provider) = "huggingface"
                  THEN HuggingFaceProvider_init(world).loads ELSE hfLoads
    /\ \E r \in ConstructorResults(select_class(resolve_provider)) :
          IF r = "ok"
          THEN /\ NewChatBot(select_class(resolve_provider))
               /\ console' = "starting"
               /\ UNCHANGED exitCode
          ELSE /\ console' = (IF r = "ImportError" THEN "import_error" ELSE "start_error")
               /\ exitCode' = 1 /\ pc' = "Exited"
               /\ UNCHANGED <<history, max_history, heap, provider, running>>
    /\ UNCHANGED <<turns, clientVars, envVars, providerVars, configProvider,
                   configTemperature, prompts, lastInput, signal, calls,
                   callMessage, callHistory, outcome>>

\* ChatBot(p) built by other code with its own AIProvider implementation
DirectConstruct ==
    /\ pc = "Direct"
    /\ NewChatBot("custom")
    /\ UNCHANGED <<turns, clientVars, envVars, providerVars, configProvider,
                   configTemperature, attempted, hfLoads, exitCode, prompts,
                   lastInput, signal, calls, callMessage, callHistory, outcome,
                   console>>

(***************************************************************************)
(* ChatBot.chat_loop.                                                      *)
(***************************************************************************)
\* chat_loop, chatbot.py:197-201, provider not available: return
ChatLoopUnavailable ==
    /\ pc = "ChatLoop"
    /\ FALSE \in IsAvailableValues(provider)
    /\ console' = "unavailable" /\ pc' = "Terminated" /\ exitCode' = 0
    /\ UNCHANGED <<cmVars, clientVars, envVars, providerVars, configProvider,
                   configTemperature, provider, attempted, hfLoads, running,
                   prompts, lastInput, signal, calls, callMessage, callHistory,
                   outcome>>

\* `while self.running`, as evaluated after a loop body that left r in self.running
LoopHead(r) == IF r THEN "AwaitingInput" ELSE "Terminated"

ChatLoopBegin ==
    /\ pc = "ChatLoop"
    /\ TRUE \in IsAvailableValues(provider)
    /\ console' = "welcome" /\ pc' = LoopHead(running)
    /\ exitCode' = IF running THEN exitCode ELSE 0
    /\ UNCHANGED <<cmVars, clientVars, envVars, providerVars, configProvider,
                   configTemperature, provider, attempted, hfLoads, running,
                   prompts, lastInput, signal, calls, callMessage, callHistory,
                   outcome>>

\* chatbot.py:206-209: a blank line, `continue`
ReadBlank ==
    \E inp \in Inputs :
        /\ pc = "AwaitingInput" /\ prompts < MaxReads
        /\ strip(inp) = <<>>
        /\ prompts' = prompts + 1 /\ lastInput' = inp
        /\ pc' = LoopHead(running)
        /\ UNCHANGED <<cmVars, clientVars, envVars, providerVars, startVars,
                       running, signal, calls, callMessage, callHistory, outcome,
                       console>>

\* chatbot.py:211-213 with handle_command and what it calls
ReadCommand ==
    \E inp \in Inputs : \E saved \in BOOLEAN :
        LET h == handle_command(inp) IN
        /\ pc = "AwaitingInput" /\ prompts < MaxReads
        /\ strip(inp) # <<>>
        /\ h.handled
        /\ prompts' = prompts + 1 /\ lastInput' = inp
        /\ running' = h.running
        /\ pc' = LoopHead(h.running)
        /\ exitCode' = IF h.running THEN exitCode ELSE 0
        /\ IF h.do = "clear"
           THEN history' = clear_history.history /\ heap' = clear_history.heap
           ELSE UNCHANGED <<history, heap>>
        /\ console' =
             CASE h.do = "exit" -> "goodbye"
               [] h.do = "clear" -> "cleared"
               [] h.do = "history" -> (IF heap[history] = <<>> THEN "no_history" ELSE "history")
               [] h.do = "save" -> (IF heap[history] = <<>> THEN "nothing_to_save"
                                    ELSE IF saved THEN "saved" ELSE "save_error")
               [] h.do = "help" -> "help"
               [] OTHER -> "config"
        /\ UNCHANGED <<max_history, turns, clientVars, envVars, providerVars,
                       configProvider, configTemperature, provider, attempted,
                       hfLoads, signal, calls, callMessage, callHistory, outcome>>

\* chatbot.py:215-216: the line is a chat message
ReadMessage ==
    \E inp \in Inputs :
        LET r == add_message("user", inp) IN
        /\ pc = "AwaitingInput" /\ prompts < MaxReads
        /\ strip(inp) # <<>>
        /\ ~handle_command(inp).handled
        /\ prompts' = prompts + 1 /\ lastInput' = inp
        /\ history' = r.history /\ heap' = r.heap /\ turns' = r.turns
        /\ pc' = "Thinking"
        /\ UNCHANGED <<max_history, clientVars, envVars, providerVars, startVars,
                       running, signal, calls, callMessage, callHistory, outcome,
                       console>>

\* chatbot.py:222: provider.chat(user_input, self.conversation.get_history()) is entered
CallProvider ==
    /\ pc = "Thinking"
    /\ heap' = get_history.heap
    /\ callHistory' = get_history.ret
    /\ callMessage' = lastInput
    /\ calls' = calls + 1
    /\ outcome' = "pending"
    /\ pc' = "Processing"
    /\ UNCHANGED <<history, max_history, turns, clientVars, envVars, providerVars,
                   startVars, running, prompts, lastInput, signal, console>>

\* chatbot.py:222-229: the call returns a text
ProviderReturns ==
    \E o \in ChatReturns(provider) :
        LET r == add_message("assistant", o.text) IN
        /\ pc = "Processing"
        /\ history' = r.history /\ heap' = r.heap /\ turns' = r.turns
        /\ outcome' = o.kind
        /\ console' = "reply"
        /\ pc' = LoopHead(running)
        /\ UNCHANGED <<max_history, clientVars, envVars, providerVars, startVars,
                       running, prompts, lastInput, signal, calls, callMessage,
                       callHistory>>

\* chatbot.py:231-232: the call raises an Exception
ProviderRaises ==
    /\ pc = "Processing"
    /\ ChatMayRaise(provider)
    /\ outcome' = "raised"
    /\ console' = "error"
    /\ pc' = LoopHead(running)
    /\ UNCHANGED <<cmVars, clientVars, envVars, providerVars, startVars, running, prompts,
                   lastInput, signal, calls, callMessage, callHistory>>

\* chatbot.py:237-239: Prompt.ask meets the end of the input
EndOfInput ==
    /\ pc = "AwaitingInput"
    /\ prompts' = prompts + 1
    /\ signal' = "eof" /\ console' = "goodbye"
    /\ pc' = "Terminated" /\ exitCode' = 0
    /\ UNCHANGED <<cmVars, clientVars, envVars, providerVars, configProvider,
                   configTemperature, provider, attempted, hfLoads, running,
                   lastInput, calls, callMessage, callHistory, outcome>>

\* chatbot.py:234-236: KeyboardInterrupt while waiting for the line
InterruptPrompt ==
    /\ pc = "AwaitingInput"
    /\ prompts' = prompts + 1
    /\ signal' = "interrupt" /\ console' = "goodbye"
    /\ pc' = "Terminated" /\ exitCode' = 0
    /\ UNCHANGED <<cmVars, clientVars, envVars, providerVars, configProvider,
                   configTemperature, provider, attempted, hfLoads, running,
                   lastInput, calls, callMessage, callHistory, outcome>>

\* chatbot.py:234-236: KeyboardInterrupt during the provider call (it is no
\* Exception, so neither the provider nor line 231 catches it)
InterruptCall ==
    /\ pc \in {"Thinking", "Processing"}
    /\ signal' = "interrupt" /\ console' = "goodbye"
    /\ outcome' = IF pc = "Processing" THEN "interrupted" ELSE outcome
    /\ pc' = "Terminated" /\ exitCode' = 0
    /\ UNCHANGED <<cmVars, clientVars, envVars, providerVars, configProvider,
                   configTemperature, provider, attempted, hfLoads, running,
                   prompts, lastInput, calls, callMessage, callHistory>>

\* A machine with neither optional library and no loadable model.
BadWorld == [geminiLib |-> FALSE, geminiInit |-> FALSE, hfLib |-> FALSE,
             primaryLoads |-> FALSE, fallbackLoads |-> FALSE]

\* Nothing has run yet.
StartIdle ==
    /\ pc = "Import"
    /\ configProvider = "<none>" /\ provider = "<none>" /\ attempted = "<none>"
    /\ configTemperature = -1 /\ hfLoads = <<>>
    /\ running = FALSE /\ exitCode = -1
    /\ prompts = 0 /\ lastInput = <<>> /\ signal = "none"
    /\ calls = 0 /\ callMessage = <<>> /\ callHistory = 0
    /\ outcome = "none" /\ console = "none"
    /\ history = 0 /\ max_history = 0 /\ heap = <<>> /\ turns = <<>>
    /\ held = 0 /\ log = <<>> /\ lastOp = "init" /\ ops = 0
    /\ ProvidersIdle

Init ==
    /\ entry \in {"main", "direct"}
    /\ flag \in (IF entry = "main" THEN Flags ELSE {"<none>"})
    /\ envProvider \in (IF entry = "main" THEN EnvProviders ELSE {"<unset>"})
    /\ envMaxHistory \in EnvMaxHistories
    /\ envTemperature \in {<<>>, <<21>>}
    \* the credential and the installed libraries are varied where they are used
    /\ envApiKey \in (IF flag = "gemini" THEN EnvApiKeys ELSE {<<>>})
    /\ world \in (IF resolve_provider \in {"gemini", "huggingface"} /\ entry = "main"
                  THEN {GoodWorld, BadWorld} ELSE {GoodWorld})
    /\ StartIdle

Next ==
    \/ ImportConfig
    \/ MainUnknown
    \/ MainConstruct
    \/ DirectConstruct
    \/ ChatLoopUnavailable
    \/ ChatLoopBegin
    \/ ReadBlank
    \/ ReadCommand
    \/ ReadMessage
    \/ CallProvider
    \/ ProviderReturns
    \/ ProviderRaises
    \/ EndOfInput
    \/ InterruptPrompt
    \/ InterruptCall

Spec == Init /\ [][Next]_vars

(***************************************************************************)
(* The start-up path alone, over every environment: `python chatbot.py`    *)
(* up to the first prompt of the chat loop.                                *)
(***************************************************************************)
Worlds == [geminiLib : BOOLEAN, geminiInit : BOOLEAN, hfLib : BOOLEAN,
           primaryLoads : BOOLEAN, fallbackLoads : BOOLEAN]

InitStart ==
    /\ entry = "main"
    /\ flag \in Flags \cup {"simple", "huggingface"}
    /\ envProvider \in EnvProviders \cup {"gemini"}
    /\ envMaxHistory \in EnvMaxHistories
    /\ envTemperature \in EnvTemperatures
    /\ envApiKey \in EnvApiKeys
    /\ world \in Worlds
    /\ StartIdle

NextStart ==
    \/ ImportConfig
    \/ MainUnknown
    \/ MainConstruct
    \/ ChatLoopBegin

SpecStart == InitStart /\ [][NextStart]_vars

(***************************************************************************)
(* Properties of the session (checked under SpecCM).                       *)
(***************************************************************************)
\* The add_message calls of the log from position `from` on, as turn records.
RECURSIVE AddsFrom(_)
AddsFrom(from) ==
    IF from > Len(log) THEN <<>>
    ELSE IF log[from].op = "add"
         THEN <<[role |-> log[from].role, content |-> log[from].content]>>
              \o AddsFrom(from + 1)
         ELSE AddsFrom(from + 1)
NumAdds == Len(AddsFrom(1))
ClearPositions == {i \in 1..Len(log) : log[i].op = "clear"}
LastClear == CHOOSE i \in ClearPositions : \A j \in ClearPositions : j <= i
\* The last k entries of a sequence.
LastK(seq, k) == SubSeq(seq, Len(seq) - k + 1, Len(seq))

\* C1: with a bound N >= 1, after any sequence of add_message, clear_history and
\* get_history calls the session holds at most N turns.
C1_LengthBounded == max_history >= 1 => Len(Session) <= max_history

C1_Witness ==
    /\ max_history >= 1 /\ lastOp = "add"
    /\ NumAdds > max_history /\ Len(Session) = max_history

\* C2: from an empty session with bound N >= 1 and with no clear, after adding
\* t1..tm get_history returns the last min(m, N) of them, oldest first.
C2_LastNInOrder ==
    (max_history >= 1 /\ ClearPositions = {})
        => Snapshot = LastK(AddsFrom(1), Min(NumAdds, max_history))

\* bound 3 and five turns added: the snapshot is the last three
C2_Witness ==
    /\ max_history = 3 /\ ClearPositions = {} /\ NumAdds = 5
    /\ Snapshot = SubSeq(AddsFrom(1), 3, 5)
    /\ Snapshot[1] # AddsFrom(1)[1]

\* A fresh session with bound n fed the turns of `adds`: append, then keep the
\* last n when longer than n (Python's seq[-n:]).
RECURSIVE FreshSession(_, _)
FreshSession(adds, n) ==
    IF adds = <<>> THEN <<>>
    ELSE LET s == Append(FreshSession(SubSeq(adds, 1, Len(adds) - 1), n),
                         adds[Len(adds)])
         IN  IF Len(s) > n THEN PySliceFrom(s, 0 - n) ELSE s

\* C3: in every session state, get_history right after clear_history returns the
\* empty sequence, and the adds made after a clear leave the session as they
\* leave a fresh one.
C3_ClearEmpties ==
    /\ lastOp = "clear" => Snapshot = <<>>
    /\ ClearPositions # {}
          => Snapshot = FreshSession(AddsFrom(LastClear + 1), max_history)

\* a clear made after evictions, followed by adds
C3_Witness ==
    /\ ClearPositions # {} /\ max_history >= 1
    /\ Cardinality({i \in 1..LastClear : log[i].op = "add"}) > max_history
    /\ Len(AddsFrom(LastClear + 1)) > 0
    /\ Len(Session) = Len(AddsFrom(LastClear + 1))

\* C4: the returned sequence is independent of the session: mutating it does
\* not change the session (nor what get_history returns next), and add_message
\* and clear_history do not change the sequence returned earlier.
C4_SnapshotIndependent ==
    [][/\ lastOp' \in {"append", "remove", "reverse"}
            => (Session' = Session /\ Snapshot' = Snapshot)
       /\ (lastOp' \in {"add", "clear"} /\ held # 0)
            => (held' = held /\ heap'[held] = heap[held])]_vars

\* the client changed the list it was handed, and the session was added to later
C4_Witness ==
    /\ held # 0 /\ lastOp = "add"
    /\ TurnsOf(heap, held) # Session
    /\ \E i \in 1..Len(heap[held]) : heap[held][i] = 0

(***************************************************************************)
(* Properties of the caller loop and of start-up (checked under Spec).     *)
(***************************************************************************)
\* A step in which Prompt.ask returned a line.
ReadStep == prompts' = prompts + 1 /\ signal' = "none"
\* The line as a reserved word is looked for: trimmed, letter case ignored.
Word(line) == strip(lower(line))
LastTurn(seq) == seq[Len(seq)]
UserTurn(text) == [role |-> "user", content |-> text]

\* What a chat line does, for the lines that are none of `reserved`: the line
\* becomes the last user turn, exactly one provider call follows with a history
\* ending in that turn, a returned reply becomes the next assistant turn, and
\* no line is read in between.
ChatLineSteps(reserved) ==
    /\ (ReadStep /\ strip(lastInput') # <<>> /\ Word(lastInput') \notin reserved)
          => /\ pc' = "Thinking" /\ calls' = calls
             /\ Len(Session') > 0 /\ LastTurn(Session') = UserTurn(lastInput')
    /\ calls' # calls
          => /\ pc = "Thinking" /\ pc' = "Processing" /\ calls' = calls + 1
             /\ callMessage' = lastInput /\ Session' = Session
             /\ TurnsOf(heap', callHistory') = Session
             /\ LastTurn(TurnsOf(heap', callHistory')) = UserTurn(lastInput)
    /\ (pc = "Thinking" /\ pc' # "Thinking")
          => (calls' = calls + 1 \/ signal' = "interrupt")
    /\ (pc = "Processing" /\ outcome' \in {"reply", "warning"})
          => /\ pc' = "AwaitingInput" /\ calls' = calls
             /\ LastTurn(Session').role = "assistant"
             /\ LastTurn(Session').content \in {ReplyText, WarningText}
             /\ max_history >= 2
                   => Session'[Len(Session') - 1] = UserTurn(callMessage)
    /\ prompts' # prompts => pc = "AwaitingInput"

C6_CommandsAreLocal ==
    [][/\ (ReadStep /\ Word(lastInput') \in {W_exit, W_quit, W_clear, W_history,
                                             W_save, W_help})
             => /\ calls' = calls /\ turns' = turns
                /\ pc' \in {"AwaitingInput", "Terminated"}
                /\ Session' = IF Word(lastInput') = W_clear THEN <<>> ELSE Session
       /\ (ReadStep /\ lastInput' = InExitNow)
             => (pc' = "Thinking" /\ LastTurn(Session') = UserTurn(InExitNow))]_vars

\* CLEAR typed after a chat: the session is empty, no call was added
C6_Witness ==
    /\ pc = "AwaitingInput" /\ lastInput = InClear /\ console = "cleared"
    /\ Session = <<>> /\ Len(turns) = 2 /\ calls = 1

\* C7: whenever the provider call fails (returns a warning or raises), once the
\* loop awaits input again the session (bound >= 2) ends with the user's message
\* followed by an assistant turn holding the fallback text.
C7_FailedTurnRecorded ==
    (/\ pc = "AwaitingInput" /\ max_history >= 2
     /\ outcome \in {"warning", "raised"} /\ console \in {"reply", "error"})
        => /\ Len(Session) >= 2
           /\ Session[Len(Session) - 1] = UserTurn(callMessage)
           /\ LastTurn(Session).role = "assistant"

\* The loop has processed exit or quit, or met end-of-input or an interrupt.
Ended ==
    \/ signal # "none"
    \/ prompts > 0 /\ Word(lastInput) \in {W_exit, W_quit}

\* C8: Terminated is final: after exit or quit, end-of-input or an interrupt
\* (at the prompt or during a provider call) no line is read, no provider call
\* is made and the session does not change.
C8_TerminatedFinal ==
    [][Ended => /\ pc = "Terminated"
                /\ prompts' = prompts /\ calls' = calls
                /\ Session' = Session /\ history' = history /\ turns' = turns
                /\ pc' = "Terminated"]_vars

\* interrupted during a provider call
C8_Witness ==
    /\ pc = "Terminated" /\ signal = "interrupt" /\ outcome = "interrupted"
    /\ Len(Session) > 0 /\ LastTurn(Session).role = "user"

\* C9: started as a script with a resolved provider name that is none of the
\* three known names (case-sensitive), the program constructs no ChatBot, no
\* session exists, no prompt is shown, and it ends with a non-zero status.
C9_UnknownProviderFails ==
    (entry = "main" /\ resolve_provider \notin KnownProviders)
        => /\ pc \in {"Import", "Main", "Exited"}
           /\ provider = "<none>" /\ attempted = "<none>"
           /\ history = 0 /\ prompts = 0
           /\ pc = "Exited" => exitCode > 0

\* --provider Simple: main's else branch
C9_Witness ==
    /\ flag = "Simple" /\ pc = "Exited" /\ exitCode = 1
    /\ console = "unknown_provider" /\ history = 0 /\ prompts = 0

\* C10: once start-up is over, the provider main constructed is the one the flag
\* names when the flag is given, whatever AI_PROVIDER holds; otherwise the one
\* AI_PROVIDER names; otherwise the rule-based variant.
C10_FlagTakesPrecedence ==
    (/\ entry = "main" /\ pc \notin {"Import", "Main"}
     \* MAX_HISTORY and TEMPERATURE hold values the configuration accepts
     /\ console \notin {"MAX_HISTORY must be at least 1",
                        "TEMPERATURE must be between 0.0 and 2.0"})
        => /\ flag \in KnownProviders => attempted = flag
           /\ (flag = "<none>" /\ envProvider \in KnownProviders)
                 => attempted = envProvider
           /\ (flag = "<none>" /\ envProvider = "<unset>") => attempted = "simple"

(***************************************************************************)
(* Properties of the start-up path (checked under SpecStart).              *)
(***************************************************************************)
ConfigFailed == pc = "Exited" /\ configProvider = "<none>"
ConfigLoaded == configProvider # "<none>"
Temperature == GetEnv(envTemperature, DefaultTemperature)
TemperatureOutside == Temperature < 0 \/ Temperature > 20
OtherSettingsValid ==
    /\ envProvider \in {"<unset>", "simple", "gemini", "huggingface"}
    /\ GetEnv(envMaxHistory, DefaultMaxHistory) >= 1

\* C11 as written: once configuration loading has run, it has failed exactly
\* when the configured temperature is outside [0.0, 2.0], whatever the other
\* settings are; a loaded configuration holds the configured temperature, 0.7
\* when TEMPERATURE is unset.
C11_Original ==
    pc # "Import" =>
        /\ ConfigFailed <=> TemperatureOutside
        /\ ConfigLoaded /\ envTemperature = <<>> => configTemperature = 7

\* C11, amended: a temperature outside [0.0, 2.0] always makes configuration
\* loading fail; with a recognised AI_PROVIDER and MAX_HISTORY >= 1 loading
\* fails exactly when the temperature is outside that range, so 0.0 and 2.0 are
\* accepted; a loaded configuration holds the configured temperature, and 0.7
\* when TEMPERATURE is unset.
C11_TemperatureRange ==
    pc # "Import" =>
        /\ TemperatureOutside => ConfigFailed
        /\ OtherSettingsValid => (ConfigFailed <=> TemperatureOutside)
        /\ OtherSettingsValid /\ envTemperature \in {<<0>>, <<20>>} => ConfigLoaded
        /\ ConfigLoaded => configTemperature = Temperature
        /\ ConfigLoaded /\ envTemperature = <<>> => configTemperature = 7

\* A loaded configuration with TEMPERATURE=2.0.
C11_Witness == ConfigLoaded /\ envTemperature = <<20>> /\ configTemperature = 20

MissingKey == envApiKey \in {<<>>, <<"">>}
LoopStarted == pc \in {"ChatLoop", "AwaitingInput"} \/ prompts > 0 \/ running

\* C12: a missing GOOGLE_API_KEY does not make configuration loading fail (with
\* the other settings valid the configuration is loaded); when main selects
\* the remote-API variant without the key, the caller loop never starts, and
\* once the constructor has been called the process has exited with a
\* non-zero status and no provider.
C12_MissingKeyFailsAtConstruction ==
    MissingKey =>
        /\ pc # "Import" /\ OtherSettingsValid /\ ~TemperatureOutside => ConfigLoaded
        /\ ConfigLoaded /\ select_class(resolve_provider) = "gemini" =>
              /\ ~LoopStarted
              /\ pc # "Main" =>
                    /\ pc = "Exited" /\ exitCode > 0
                    /\ attempted = "gemini" /\ provider = "<none>"

\* GeminiProvider() raised ValueError for the missing key on a machine where
\* the library is installed, after config had only warned.
C12_Witness ==
    /\ MissingKey /\ world.geminiLib /\ envProvider = "gemini"
    /\ ConfigLoaded /\ attempted = "gemini" /\ pc = "Exited" /\ exitCode = 1

HFSelected == ConfigLoaded /\ select_class(resolve_provider) = "huggingface"
FallbackAttempts == Cardinality({i \in 1..Len(hfLoads) : hfLoads[i] = "gpt2"})

\* C20: with the local-inference variant selected, a failing primary model
\* and a loadable fallback give a constructed provider that uses the fallback
\* model; the construction raises only when the library is missing or both
\* loads fail, and then the loop never starts and the process exits non-zero;
\* the fallback load is attempted at most once.
C20_FallbackOnce ==
    HFSelected =>
        /\ FallbackAttempts <= 1
        /\ pc # "Main" /\ world.hfLib /\ ~world.primaryLoads /\ world.fallbackLoads =>
              /\ provider = "huggingface"
              /\ hfLoads[Len(hfLoads)] = "gpt2"
        /\ pc # "Main" /\ world.hfLib /\ world.primaryLoads =>
              /\ provider = "huggingface" /\ FallbackAttempts = 0
        /\ pc = "Exited" =>
              /\ ~world.hfLib \/ (~world.primaryLoads /\ ~world.fallbackLoads)
              /\ exitCode > 0 /\ provider = "<none>"
        /\ ~world.hfLib \/ (~world.primaryLoads /\ ~world.fallbackLoads) => ~LoopStarted

\* The loop was entered with the fallback model after the primary failed.
C20_Witness ==
    /\ provider = "huggingface" /\ hfLoads = <<PrimaryModel, FallbackModel>>
    /\ pc = "AwaitingInput"

(***************************************************************************)
(* GeminiProvider.chat on a constructed provider: the rate limiter, the    *)
(* remote request and the classification of its failure.  Time is counted  *)
(* in ticks of 1/TicksPerSecond seconds.                                   *)
(***************************************************************************)
TicksPerSecond == 2           \* resolution of the clock
MaxClock == 7                 \* the clock is followed up to this tick
MaxRequests == 2              \* chat calls of one run
MinRequestIntervalSeconds == 1    \* gemini_provider.py:27
min_request_interval == MinRequestIntervalSeconds * TicksPerSecond

\* The session and its client at rest.
SessionIdle ==
    /\ history = 0 /\ max_history = 0 /\ heap = <<>> /\ turns = <<>>
    /\ held = 0 /\ log = <<>> /\ lastOp = "init" /\ ops = 0

\* _rate_limit that never sleeps
rate_limit_sleep_never(now, last) == 0

\* _rate_limit, gemini_provider.py:53-58: the time to sleep (0: no sleep)
rate_limit_sleep(now, last) ==
    LET time_since_last_request == now - last
    IN  IF time_since_last_request < min_request_interval
        THEN min_request_interval - time_since_last_request
        ELSE 0

QuotaWarning ==
    <<"(!)", " ", "A", "P", "I", " ", "q", "u", "o", "t", "a", " ", "e", "x", "c", "e", "e", "d",
      "e", "d", ".", " ", "P", "l", "e", "a", "s", "e", " ", "t", "r", "y", " ", "a", "g", "a",
      "i", "n", " ", "l", "a", "t", "e", "r", " ", "o", "r", " ", "s", "w", "i", "t", "c", "h",
      " ", "t", "o", " ", "t", "h", "e", " ", "l", "o", "c", "a", "l", " ", "H", "u", "g", "g",
      "i", "n", "g", " ", "F", "a", "c", "e", " ", "p", "r", "o", "v", "i", "d", "e", "r", ".">>
AuthWarning ==
    <<"(!)", " ", "A", "P", "I", " ", "a", "u", "t", "h", "e", "n", "t", "i", "c", "a", "t", "i",
      "o", "n", " ", "f", "a", "i", "l", "e", "d", ".", " ", "P", "l", "e", "a", "s", "e", " ",
      "c", "h", "e", "c", "k", " ", "y", "o", "u", "r", " ", "G", "O", "O", "G", "L", "E", "_",
      "A", "P", "I", "_", "K", "E", "Y", " ", "i", "n", " ", "t", "h", "e", " ", ".", "e", "n",
      "v", " ", "f", "i", "l", "e", ".">>
SafetyWarning ==
    <<"(!)", " ", "R", "e", "s", "p", "o", "n", "s", "e", " ", "w", "a", "s", " ", "b", "l", "o",
      "c", "k", "e", "d", " ", "d", "u", "e", " ", "t", "o", " ", "s", "a", "f", "e", "t", "y",
      " ", "f", "i", "l", "t", "e", "r", "s", ".", " ", "P", "l", "e", "a", "s", "e", " ", "t",
      "r", "y", " ", "r", "e", "p", "h", "r", "a", "s", "i", "n", "g", " ", "y", "o", "u", "r",
      " ", "q", "u", "e", "s", "t", "i", "o", "n", ".">>
ApiErrorPrefix ==
    <<"(!)", " ", "A", "P", "I", " ", "e", "r", "r", "o", "r", ":", " ">>

\* the except branch with the error text compared as raised
gemini_error_response_caseSensitive(e) ==
    LET error_msg == e
    IN  IF Contains(error_msg, <<"q", "u", "o", "t", "a">>) \/ Contains(error_msg, <<"l", "i", "m", "i", "t">>)
        THEN QuotaWarning
        ELSE IF Contains(error_msg, <<"a", "p", "i", "_", "k", "e", "y">>)
                \/ Contains(error_msg, <<"a", "u", "t", "h", "e", "n", "t", "i", "c", "a", "t", "i", "o", "n">>)
        THEN AuthWarning
        ELSE IF Contains(error_msg, <<"s", "a", "f", "e", "t", "y">>)
        THEN SafetyWarning
        ELSE ApiErrorPrefix \o e

\* chat, gemini_provider.py:108-119: the string returned for exception text e
gemini_error_response(e) ==
    LET error_msg == lower(e)
    IN  IF Contains(error_msg, <<"q", "u", "o", "t", "a">>) \/ Contains(error_msg, <<"l", "i", "m", "i", "t">>)
        THEN QuotaWarning
        ELSE IF Contains(error_msg, <<"a", "p", "i", "_", "k", "e", "y">>)
                \/ Contains(error_msg, <<"a", "u", "t", "h", "e", "n", "t", "i", "c", "a", "t", "i", "o", "n">>)
        THEN AuthWarning
        ELSE IF Contains(error_msg, <<"s", "a", "f", "e", "t", "y">>)
        THEN SafetyWarning
        ELSE ApiErrorPrefix \o e

\* str(e) of the exceptions the remote call is made to raise
ApiErrors ==
    {<<"Q", "u", "o", "t", "a", " ", "e", "x", "c", "e", "e", "d", "e", "d", " ", "f", "o", "r", " ", "t", "h", "i", "s", " ", "p", "r", "o", "j", "e", "c", "t">>,   \* upper-case Q
     <<"4", "2", "9", " ", "r", "a", "t", "e", " ", "L", "I", "M", "I", "T", " ", "r", "e", "a", "c", "h", "e", "d">>,
     <<"A", "P", "I", "_", "K", "E", "Y", " ", "o", "v", "e", "r", " ", "l", "i", "m", "i", "t">>,   \* both the quota and the credential rule match
     <<"I", "n", "v", "a", "l", "i", "d", " ", "A", "P", "I", "_", "K", "E", "Y">>,
     <<"A", "u", "t", "h", "e", "n", "t", "i", "c", "a", "t", "i", "o", "n", " ", "f", "a", "i", "l", "e", "d", ":", " ", "S", "A", "F", "E", "T", "Y", " ", "c", "h", "e", "c", "k">>,   \* credential rule before the safety rule
     <<"b", "l", "o", "c", "k", "e", "d", " ", "b", "y", " ", "S", "a", "f", "e", "t", "y", " ", "s", "e", "t", "t", "i", "n", "g", "s">>,
     <<"C", "o", "n", "n", "e", "c", "t", "i", "o", "n", " ", "r", "e", "s", "e", "t">>,
     <<>>}   \* an exception without a message

geminiFrozen == <<cmVars, clientVars, pc, envVars, startVars, loopVars, message,
                  chatHistory, picked, generated_text>>

\* time passes
GeminiTick ==
    /\ clock < MaxClock
    /\ clock' = clock + 1
    /\ UNCHANGED <<geminiFrozen, ppc, response, api_error, last_request_time,
                   current_time, requests>>

\* chat is called; _rate_limit reads current_time = time.time()
GeminiChat ==
    /\ ppc = "ready" /\ Len(requests) < MaxRequests
    /\ current_time' = clock
    /\ ppc' = "rate_limit"
    /\ response' = <<>> /\ api_error' = <<>>
    /\ UNCHANGED <<geminiFrozen, clock, last_request_time, requests>>

\* _rate_limit: time.sleep(sleep_time) returns after at least sleep_time
GeminiSleep ==
    /\ ppc = "rate_limit"
    /\ LET sleep_time == rate_limit_sleep(current_time, last_request_time)
       IN  IF sleep_time > 0
           THEN \E late \in 0..1 : clock' = clock + sleep_time + late
           ELSE UNCHANGED clock
    /\ ppc' = "record"
    /\ UNCHANGED <<geminiFrozen, response, api_error, last_request_time,
                   current_time, requests>>

\* _rate_limit: self.last_request_time = time.time()
GeminiRecord ==
    /\ ppc = "record"
    /\ last_request_time' = clock
    /\ ppc' = "send"
    /\ UNCHANGED <<geminiFrozen, clock, response, api_error, current_time, requests>>

\* chat.send_message(...) is dispatched
GeminiSend ==
    /\ ppc = "send"
    /\ requests' = Append(requests, [recorded |-> last_request_time,
                                     dispatched |-> clock, outcome |-> "pending"])
    /\ ppc' = "waiting"
    /\ UNCHANGED <<geminiFrozen, clock, response, api_error, last_request_time,
                   current_time>>

\* the request succeeds: return response.text
GeminiResponds ==
    /\ ppc = "waiting"
    /\ requests' = [requests EXCEPT ![Len(requests)].outcome = "returned"]
    /\ response' = ReplyText
    /\ ppc' = "ready"
    /\ UNCHANGED <<geminiFrozen, clock, api_error, last_request_time, current_time>>

\* the request raises: the except branch returns a warning
GeminiFails ==
    /\ ppc = "waiting"
    /\ \E e \in ApiErrors :
          /\ api_error' = e
          /\ response' = gemini_error_response(e)
    /\ requests' = [requests EXCEPT ![Len(requests)].outcome = "failed"]
    /\ ppc' = "ready"
    /\ UNCHANGED <<geminiFrozen, clock, last_request_time, current_time>>

\* GeminiProvider(): last_request_time = 0; time.time() is far beyond 0
InitGemini ==
    /\ SessionIdle /\ ProgIdle
    /\ ppc = "ready" /\ message = <<>> /\ chatHistory = <<>> /\ response = <<>>
    /\ picked = <<>> /\ generated_text = <<>> /\ api_error = <<>>
    /\ clock = min_request_interval /\ last_request_time = 0 /\ current_time = 0
    /\ requests = <<>>

NextGemini ==
    \/ GeminiTick
    \/ GeminiChat
    \/ GeminiSleep
    \/ GeminiRecord
    \/ GeminiSend
    \/ GeminiResponds
    \/ GeminiFails

SpecGemini == InitGemini /\ [][NextGemini]_vars

(***************************************************************************)
(* Properties of the remote-API variant (checked under SpecGemini).        *)
(***************************************************************************)
\* C13: of two consecutive chat calls on one provider, the second request
\* is dispatched at least min_request_interval (1 second) after the time
\* the limiter recorded for the first, whether the first succeeded or failed.
C13_MinInterval ==
    \A i \in 2..Len(requests) :
        /\ requests[i - 1].outcome \in {"returned", "failed"}
        /\ requests[i].dispatched >= requests[i - 1].recorded + 1 * TicksPerSecond

\* The second call came at once after a failed first call and was dispatched
\* exactly one second after the first was recorded.
C13_Witness ==
    /\ Len(requests) = 2 /\ requests[1].outcome = "failed"
    /\ requests[2].dispatched = requests[1].recorded + TicksPerSecond

\* chat has come back from a request that raised
LastFailed ==
    ppc = "ready" /\ requests # <<>> /\ requests[Len(requests)].outcome = "failed"
ErrorHas(word) == Contains(lower(api_error), word)

\* C14: when the remote call raised, chat has returned a string chosen by
\* the first rule that matches the lower-cased error text: quota/limit, then
\* api_key/authentication, then safety, else a generic warning that carries
\* the raw error text.
C14_ErrorClassification ==
    LastFailed =>
        /\ Len(response) > 0
        /\ response =
             IF ErrorHas(<<"q", "u", "o", "t", "a">>) \/ ErrorHas(<<"l", "i", "m", "i", "t">>)
             THEN QuotaWarning
             ELSE IF ErrorHas(<<"a", "p", "i", "_", "k", "e", "y">>)
                     \/ ErrorHas(<<"a", "u", "t", "h", "e", "n", "t", "i", "c", "a", "t", "i", "o", "n">>)
             THEN AuthWarning
             ELSE IF ErrorHas(<<"s", "a", "f", "e", "t", "y">>)
             THEN SafetyWarning
             ELSE ApiErrorPrefix \o api_error
        /\ response \notin {QuotaWarning, AuthWarning, SafetyWarning}
              => Contains(response, api_error)

\* An error text matching both the first and the second rule got the quota
\* warning, and one in upper case was recognised.
C14_Witness ==
    /\ LastFailed /\ response = QuotaWarning
    /\ ErrorHas(<<"a", "p", "i", "_", "k", "e", "y">>) /\ ~Contains(api_error, <<"a", "p", "i", "_", "k", "e", "y">>)

(***************************************************************************)
(* SimpleProvider: regular expressions, the response pools and chat.       *)
(***************************************************************************)
\* the characters \w matches
WordChars ==
    {UpperCase[i] : i \in 1..26} \cup {LowerCase[i] : i \in 1..26}
    \cup {"0", "1", "2", "3", "4", "5", "6", "7", "8", "9", "_"}
IsWordChar(c) == c \in WordChars
\* \b between text[i] and text[i + 1] (i = 0: the start of the text)
Boundary(text, i) ==
    (i >= 1 /\ IsWordChar(text[i])) # (i < Len(text) /\ IsWordChar(text[i + 1]))
\* word occupies text[i + 1 .. i + Len(word)]
StartsAt(text, i, word) ==
    i + Len(word) <= Len(text) /\ SubSeq(text, i + 1, i + Len(word)) = word
\* re.search(r'\b(w1|w2|...)\b', text) finds something
re_search_words(text, words) ==
    \E i \in 0..Len(text) : \E w \in words :
        Boundary(text, i) /\ StartsAt(text, i, w) /\ Boundary(text, i + Len(w))

\* self.responses, simple_provider.py:17-63
responses ==
    [greeting |-> <<
<<"H", "e", "l", "l", "o", "!", " ", "H", "o", "w", " ", "c", "a", "n", " ", "I", " ", "h",
          "e", "l", "p", " ", "y", "o", "u", " ", "t", "o", "d", "a", "y", "?">>,
<<"H", "i", " ", "t", "h", "e", "r", "e", "!", " ", "W", "h", "a", "t", " ", "w", "o", "u",
          "l", "d", " ", "y", "o", "u", " ", "l", "i", "k", "e", " ", "t", "o", " ", "t", "a", "l",
          "k", " ", "a", "b", "o", "u", "t", "?">>,
<<"H", "e", "y", "!", " ", "I", "'", "m", " ", "h", "e", "r", "e", " ", "t", "o", " ", "c",
          "h", "a", "t", " ", "w", "i", "t", "h", " ", "y", "o", "u", ".">>,
<<"G", "r", "e", "e", "t", "i", "n", "g", "s", "!", " ", "H", "o", "w", " ", "a", "r", "e",
          " ", "y", "o", "u", " ", "d", "o", "i", "n", "g", "?">>
       >>,
     goodbye |-> <<
<<"G", "o", "o", "d", "b", "y", "e", "!", " ", "I", "t", " ", "w", "a", "s", " ", "n", "i",
          "c", "e", " ", "c", "h", "a", "t", "t", "i", "n", "g", " ", "w", "i", "t", "h", " ", "y",
          "o", "u", ".">>,
<<"S", "e", "e", " ", "y", "o", "u", " ", "l", "a", "t", "e", "r", "!", " ", "H", "a", "v",
          "e", " ", "a", " ", "g", "r", "e", "a", "t", " ", "d", "a", "y", "!">>,
<<"B", "y", "e", "!", " ", "F", "e", "e", "l", " ", "f", "r", "e", "e", " ", "t", "o", " ",
          "c", "o", "m", "e", " ", "b", "a", "c", "k", " ", "a", "n", "y", "t", "i", "m", "e", ".">>,
<<"T", "a", "k", "e", " ", "c", "a", "r", "e", "!", " ", "U", "n", "t", "i", "l", " ", "n",
          "e", "x", "t", " ", "t", "i", "m", "e", "!">>
       >>,
     how_are_you |-> <<
<<"I", "'", "m", " ", "d", "o", "i", "n", "g", " ", "w", "e", "l", "l", ",", " ", "t", "h",
          "a", "n", "k", " ", "y", "o", "u", " ", "f", "o", "r", " ", "a", "s", "k", "i", "n", "g",
          "!", " ", "H", "o", "w", " ", "a", "r", "e", " ", "y", "o", "u", "?">>,
<<"I", "'", "m", " ", "g", "r", "e", "a", "t", "!", " ", "T", "h", "a", "n", "k", "s", " ",
          "f", "o", "r", " ", "c", "h", "e", "c", "k", "i", "n", "g", " ", "i", "n", ".", " ", "H",
          "o", "w", " ", "a", "b", "o", "u", "t", " ", "y", "o", "u", "?">>,
<<"I", "'", "m", " ", "d", "o", "i", "n", "g", " ", "f", "i", "n", "e", "!", " ", "W", "h",
          "a", "t", " ", "a", "b", "o", "u", "t", " ", "y", "o", "u", "r", "s", "e", "l", "f", "?">>,
<<"A", "l", "l", " ", "g", "o", "o", "d", " ", "h", "e", "r", "e", "!", " ", "H", "o", "w",
          "'", "s", " ", "y", "o", "u", "r", " ", "d", "a", "y", " ", "g", "o", "i", "n", "g", "?">>
       >>,
     name |-> <<
<<"I", "'", "m", " ", "a", " ", "s", "i", "m", "p", "l", "e", " ", "A", "I", " ", "c", "h",
          "a", "t", "b", "o", "t", "!", " ", "Y", "o", "u", " ", "c", "a", "n", " ", "c", "a", "l",
          "l", " ", "m", "e", " ", "B", "o", "t", ".">>,
<<"I", "'", "m", " ", "y", "o", "u", "r", " ", "f", "r", "i", "e", "n", "d", "l", "y", " ",
          "A", "I", " ", "a", "s", "s", "i", "s", "t", "a", "n", "t", ".", " ", "W", "h", "a", "t",
          "'", "s", " ", "y", "o", "u", "r", " ", "n", "a", "m", "e", "?">>,
<<"I", "'", "m", " ", "a", " ", "c", "h", "a", "t", "b", "o", "t", " ", "c", "r", "e", "a",
          "t", "e", "d", " ", "t", "o", " ", "h", "e", "l", "p", " ", "a", "n", "d", " ", "c", "h",
          "a", "t", " ", "w", "i", "t", "h", " ", "y", "o", "u", "!">>,
<<"I", "'", "m", " ", "a", "n", " ", "A", "I", " ", "a", "s", "s", "i", "s", "t", "a", "n",
          "t", ".", " ", "N", "i", "c", "e", " ", "t", "o", " ", "m", "e", "e", "t", " ", "y", "o",
          "u", "!">>
       >>,
     help |-> <<
<<"I", "'", "m", " ", "h", "e", "r", "e", " ", "t", "o", " ", "c", "h", "a", "t", " ", "w",
          "i", "t", "h", " ", "y", "o", "u", "!", " ", "A", "s", "k", " ", "m", "e", " ", "a", "n",
          "y", "t", "h", "i", "n", "g", " ", "-", " ", "a", "b", "o", "u", "t", " ", "p", "r", "o",
          "g", "r", "a", "m", "m", "i", "n", "g", ",", " ", "g", "e", "n", "e", "r", "a", "l", " ",
          "q", "u", "e", "s", "t", "i", "o", "n", "s", ",", " ", "o", "r", " ", "j", "u", "s", "t",
          " ", "h", "a", "v", "e", " ", "a", " ", "c", "o", "n", "v", "e", "r", "s", "a", "t", "i",
          "o", "n", ".">>,
<<"I", " ", "c", "a", "n", " ", "h", "e", "l", "p", " ", "w", "i", "t", "h", " ", "v", "a",
          "r", "i", "o", "u", "s", " ", "t", "o", "p", "i", "c", "s", " ", "l", "i", "k", "e", " ",
          "c", "o", "d", "i", "n", "g", ",", " ", "w", "r", "i", "t", "i", "n", "g", ",", " ", "o",
          "r", " ", "j", "u", "s", "t", " ", "c", "a", "s", "u", "a", "l", " ", "c", "o", "n", "v",
          "e", "r", "s", "a", "t", "i", "o", "n", ".", " ", "W", "h", "a", "t", " ", "i", "n", "t",
          "e", "r", "e", "s", "t", "s", " ", "y", "o", "u", "?">>,
<<"F", "e", "e", "l", " ", "f", "r", "e", "e", " ", "t", "o", " ", "a", "s", "k", " ", "m",
          "e", " ", "q", "u", "e", "s", "t", "i", "o", "n", "s", " ", "a", "b", "o", "u", "t", " ",
          "t", "e", "c", "h", "n", "o", "l", "o", "g", "y", ",", " ", "p", "r", "o", "g", "r", "a",
          "m", "m", "i", "n", "g", ",", " ", "o", "r", " ", "a", "n", "y", "t", "h", "i", "n", "g",
          " ", "e", "l", "s", "e", " ", "y", "o", "u", "'", "d", " ", "l", "i", "k", "e", " ", "t",
          "o", " ", "d", "i", "s", "c", "u", "s", "s", "!">>,
<<"I", "'", "m", " ", "h", "e", "r", "e", " ", "t", "o", " ", "a", "s", "s", "i", "s", "t",
          "!", " ", "W", "h", "e", "t", "h", "e", "r", " ", "y", "o", "u", " ", "n", "e", "e", "d",
          " ", "h", "e", "l", "p", " ", "w", "i", "t", "h", " ", "c", "o", "d", "e", ",", " ", "w",
          "a", "n", "t", " ", "t", "o", " ", "b", "r", "a", "i", "n", "s", "t", "o", "r", "m", " ",
          "i", "d", "e", "a", "s", ",", " ", "o", "r", " ", "j", "u", "s", "t", " ", "c", "h", "a",
          "t", ",", " ", "I", "'", "m", " ", "r", "e", "a", "d", "y", ".">>
       >>,
     programming |-> <<
<<"P", "r", "o", "g", "r", "a", "m", "m", "i", "n", "g", " ", "i", "s", " ", "f", "a", "s",
          "c", "i", "n", "a", "t", "i", "n", "g", "!", " ", "W", "h", "a", "t", " ", "l", "a", "n",
          "g", "u", "a", "g", "e", " ", "a", "r", "e", " ", "y", "o", "u", " ", "w", "o", "r", "k",
          "i", "n", "g", " ", "w", "i", "t", "h", "?">>,
<<"I", " ", "l", "o", "v", "e", " ", "t", "a", "l", "k", "i", "n", "g", " ", "a", "b", "o",
          "u", "t", " ", "c", "o", "d", "e", "!", " ", "A", "r", "e", " ", "y", "o", "u", " ", "w",
          "o", "r", "k", "i", "n", "g", " ", "o", "n", " ", "a", "n", "y", " ", "i", "n", "t", "e",
          "r", "e", "s", "t", "i", "n", "g", " ", "p", "r", "o", "j", "e", "c", "t", "s", "?">>,
<<"P", "r", "o", "g", "r", "a", "m", "m", "i", "n", "g", " ", "c", "a", "n", " ", "b", "e",
          " ", "c", "h", "a", "l", "l", "e", "n", "g", "i", "n", "g", " ", "b", "u", "t", " ", "r",
          "e", "w", "a", "r", "d", "i", "n", "g", ".", " ", "W", "h", "a", "t", " ", "a", "r", "e",
          " ", "y", "o", "u", " ", "t", "r", "y", "i", "n", "g", " ", "t", "o", " ", "b", "u", "i",
          "l", "d", "?">>,
<<"C", "o", "d", "e", " ", "i", "s", " ", "l", "i", "k", "e", " ", "p", "o", "e", "t", "r",
          "y", " ", "-", " ", "i", "t", " ", "s", "h", "o", "u", "l", "d", " ", "b", "e", " ", "e",
          "l", "e", "g", "a", "n", "t", " ", "a", "n", "d", " ", "f", "u", "n", "c", "t", "i", "o",
          "n", "a", "l", ".", " ", "W", "h", "a", "t", "'", "s", " ", "y", "o", "u", "r", " ", "f",
          "a", "v", "o", "r", "i", "t", "e", " ", "l", "a", "n", "g", "u", "a", "g", "e", "?">>
       >>,
     default |-> <<
<<"T", "h", "a", "t", "'", "s", " ", "i", "n", "t", "e", "r", "e", "s", "t", "i", "n", "g",
          "!", " ", "T", "e", "l", "l", " ", "m", "e", " ", "m", "o", "r", "e", " ", "a", "b", "o",
          "u", "t", " ", "t", "h", "a", "t", ".">>,
<<"I", " ", "s", "e", "e", "!", " ", "W", "h", "a", "t", " ", "d", "o", " ", "y", "o", "u",
          " ", "t", "h", "i", "n", "k", " ", "a", "b", "o", "u", "t", " ", "t", "h", "a", "t", "?">>,
<<"H", "m", "m", ",", " ", "t", "h", "a", "t", "'", "s", " ", "a", " ", "g", "o", "o", "d",
          " ", "p", "o", "i", "n", "t", ".", " ", "C", "a", "n", " ", "y", "o", "u", " ", "e", "l",
          "a", "b", "o", "r", "a", "t", "e", "?">>,
<<"T", "h", "a", "t", " ", "s", "o", "u", "n", "d", "s", " ", "i", "n", "t", "r", "i", "g",
          "u", "i", "n", "g", "!", " ", "W", "h", "a", "t", "'", "s", " ", "y", "o", "u", "r", " ",
          "t", "a", "k", "e", " ", "o", "n", " ", "i", "t", "?">>,
<<"I", "'", "d", " ", "l", "o", "v", "e", " ", "t", "o", " ", "h", "e", "a", "r", " ", "m",
          "o", "r", "e", " ", "a", "b", "o", "u", "t", " ", "y", "o", "u", "r", " ", "t", "h", "o",
          "u", "g", "h", "t", "s", " ", "o", "n", " ", "t", "h", "i", "s", ".">>,
<<"T", "h", "a", "t", "'", "s", " ", "a", " ", "f", "a", "s", "c", "i", "n", "a", "t", "i",
          "n", "g", " ", "t", "o", "p", "i", "c", "!", " ", "W", "h", "a", "t", " ", "g", "o", "t",
          " ", "y", "o", "u", " ", "i", "n", "t", "e", "r", "e", "s", "t", "e", "d", " ", "i", "n",
          " ", "i", "t", "?">>,
<<"I", "n", "t", "e", "r", "e", "s", "t", "i", "n", "g", " ", "p", "e", "r", "s", "p", "e",
          "c", "t", "i", "v", "e", "!", " ", "H", "o", "w", " ", "d", "i", "d", " ", "y", "o", "u",
          " ", "c", "o", "m", "e", " ", "t", "o", " ", "t", "h", "a", "t", " ", "c", "o", "n", "c",
          "l", "u", "s", "i", "o", "n", "?">>
       >>]

\* self.patterns, simple_provider.py:65-72, in dict order
patterns ==
    <<[category |-> "greeting", words |-> {
          <<"h", "e", "l", "l", "o">>,
          <<"h", "i">>,
          <<"h", "e", "y">>,
          <<"g", "r", "e", "e", "t", "i", "n", "g", "s">>,
          <<"g", "o", "o", "d", " ", "m", "o", "r", "n", "i", "n", "g">>,
          <<"g", "o", "o", "d", " ", "a", "f", "t", "e", "r", "n", "o", "o", "n">>,
          <<"g", "o", "o", "d", " ", "e", "v", "e", "n", "i", "n", "g">>}],
      [category |-> "goodbye", words |-> {
          <<"b", "y", "e">>,
          <<"g", "o", "o", "d", "b", "y", "e">>,
          <<"s", "e", "e", " ", "y", "o", "u">>,
          <<"f", "a", "r", "e", "w", "e", "l", "l">>,
          <<"t", "a", "k", "e", " ", "c", "a", "r", "e">>,
          <<"l", "a", "t", "e", "r">>}],
      [category |-> "how_are_you", words |-> {
          <<"h", "o", "w", " ", "a", "r", "e", " ", "y", "o", "u">>,
          <<"h", "o", "w", "'", "r", "e", " ", "y", "o", "u">>,
          <<"h", "o", "w", " ", "d", "o", " ", "y", "o", "u", " ", "d", "o">>,
          <<"w", "h", "a", "t", "'", "s", " ", "u", "p">>,
          <<"h", "o", "w", "'", "s", " ", "i", "t", " ", "g", "o", "i", "n", "g">>}],
      [category |-> "name", words |-> {
          <<"w", "h", "a", "t", "'", "s", " ", "y", "o", "u", "r", " ", "n", "a", "m", "e">>,
          <<"w", "h", "o", " ", "a", "r", "e", " ", "y", "o", "u">>,
          <<"w", "h", "a", "t", " ", "a", "r", "e", " ", "y", "o", "u">>,
          <<"y", "o", "u", "r", " ", "n", "a", "m", "e">>}],
      [category |-> "help", words |-> {
          <<"h", "e", "l", "p">>,
          <<"a", "s", "s", "i", "s", "t">>,
          <<"s", "u", "p", "p", "o", "r", "t">>,
          <<"w", "h", "a", "t", " ", "c", "a", "n", " ", "y", "o", "u", " ", "d", "o">>}],
      [category |-> "programming", words |-> {
          <<"c", "o", "d", "e">>,
          <<"c", "o", "d", "i", "n", "g">>,
          <<"p", "r", "o", "g", "r", "a", "m">>,
          <<"p", "r", "o", "g", "r", "a", "m", "m", "i", "n", "g">>,
          <<"p", "y", "t", "h", "o", "n">>,
          <<"j", "a", "v", "a", "s", "c", "r", "i", "p", "t">>,
          <<"j", "a", "v", "a">>,
          <<"c", "+", "+">>,
          <<"h", "t", "m", "l">>,
          <<"c", "s", "s">>,
          <<"s", "q", "l">>,
          <<"a", "l", "g", "o", "r", "i", "t", "h", "m">>,
          <<"f", "u", "n", "c", "t", "i", "o", "n">>,
          <<"v", "a", "r", "i", "a", "b", "l", "e">>,
          <<"l", "o", "o", "p">>,
          <<"d", "e", "b", "u", "g">>}]>>

\* the loop of _classify_message run from the last pattern to the first
RECURSIVE first_match_backwards(_, _)
first_match_backwards(message_lower, k) ==
    IF k > Len(patterns) THEN "default"
    ELSE IF re_search_words(message_lower, patterns[Len(patterns) + 1 - k].words)
         THEN patterns[Len(patterns) + 1 - k].category
    ELSE first_match_backwards(message_lower, k + 1)

\* the loop of _classify_message, simple_provider.py:78-82, from pattern k on
RECURSIVE first_match(_, _)
first_match(message_lower, k) ==
    IF k > Len(patterns) THEN "default"
    ELSE IF re_search_words(message_lower, patterns[k].words)
         THEN patterns[k].category
    ELSE first_match(message_lower, k + 1)

\* _classify_message, simple_provider.py:74-82 (message_lower is computed once)
classify_message(msg) ==
    CHOOSE category \in {first_match(message_lower, 1) : message_lower \in {lower(msg)}} : TRUE

\* the alternatives of the name pattern, simple_provider.py:90
NamePrefixes == {<<"i", "'", "m">>, <<"i", " ", "a", "m">>,
                 <<"m", "y", " ", "n", "a", "m", "e", " ", "i", "s">>, <<"c", "a", "l", "l", " ", "m", "e">>}
\* first position from `from` on that holds no white space (0: none)
FirstNonSpace(text, from) ==
    LET ks == {k \in from..Len(text) : ~IsSpace(text[k])}
    IN  IF ks = {} THEN 0 ELSE CHOOSE k \in ks : \A j \in ks : k <= j
\* end of the longest run of \w characters that starts at k
WordRunEnd(text, k) ==
    CHOOSE e \in k..Len(text) :
        /\ \A j \in k..e : IsWordChar(text[j])
        /\ e = Len(text) \/ ~IsWordChar(text[e + 1])
\* r'\b(?:i\'m|i am|my name is|call me)\s+(\w+)' with IGNORECASE matches at i with prefix p
name_match_at(content, i, p) ==
    /\ Boundary(content, i)
    /\ i + Len(p) < Len(content)
    /\ lower(SubSeq(content, i + 1, i + Len(p))) = p
    /\ IsSpace(content[i + Len(p) + 1])
    /\ FirstNonSpace(content, i + Len(p) + 1) # 0
    /\ IsWordChar(content[FirstNonSpace(content, i + Len(p) + 1)])
\* re.search(...).group(1) of the leftmost match (<<>>: no match)
re_search_name(content) ==
    LET at == {i \in 0..Len(content) : \E p \in NamePrefixes : name_match_at(content, i, p)}
    IN  IF at = {} THEN <<>>
        ELSE LET i == CHOOSE a \in at : \A b \in at : a <= b
                 p == CHOOSE q \in NamePrefixes : name_match_at(content, i, q)
                 k == FirstNonSpace(content, i + Len(p) + 1)
             IN  SubSeq(content, k, WordRunEnd(content, k))

\* the loop over reversed(history[-5:]), from position i down: the name
\* found, or the KeyError a turn dict without the key raises
RECURSIVE scan_for_name(_, _)
scan_for_name(recent, i) ==
    IF i = 0 THEN [raised |-> FALSE, name |-> <<>>]
    ELSE IF "role" \notin DOMAIN recent[i]
         THEN [raised |-> TRUE, name |-> <<"'", "r", "o", "l", "e", "'">>]
    ELSE IF recent[i].role # "user" THEN scan_for_name(recent, i - 1)
    ELSE IF "content" \notin DOMAIN recent[i]
         THEN [raised |-> TRUE, name |-> <<"'", "c", "o", "n", "t", "e", "n", "t", "'">>]
    ELSE IF re_search_name(recent[i].content) # <<>>
         THEN [raised |-> FALSE, name |-> re_search_name(recent[i].content)]
    ELSE scan_for_name(recent, i - 1)

RecentTurns == 5     \* simple_provider.py:88
\* the name search looking at the whole history
find_user_name_wholeHistory(hist) == scan_for_name(hist, Len(hist))
\* _get_contextual_response, simple_provider.py:87-93
find_user_name(hist) ==
    LET recent == PySliceFrom(hist, 0 - RecentTurns)
    IN  scan_for_name(recent, Len(recent))

\* str.replace(old, new)
RECURSIVE Replace(_, _, _)
Replace(text, old, new) ==
    IF Len(text) < Len(old) \/ old = <<>> THEN text
    ELSE IF SubSeq(text, 1, Len(old)) = old
         THEN new \o Replace(SubSeq(text, Len(old) + 1, Len(text)), old, new)
    ELSE <<text[1]>> \o Replace(Tail(text), old, new)

\* simple_provider.py:98-101
personalize(text, user_name, category) ==
    IF user_name # <<>> /\ category \in {"greeting", "how_are_you"}
    THEN Replace(Replace(text, <<"H", "o", "w", " ", "a", "r", "e", " ", "y", "o", "u", "?">>,
                         <<"H", "o", "w", " ", "a", "r", "e", " ", "y", "o", "u", ",", " ">> \o user_name \o <<"?">>),
                 <<"H", "o", "w", " ", "a", "b", "o", "u", "t", " ", "y", "o", "u", "?">>,
                 <<"H", "o", "w", " ", "a", "b", "o", "u", "t", " ", "y", "o", "u", ",", " ">> \o user_name \o <<"?">>)
    ELSE text

\* random.choice(pool) for the random draw u
choice(pool, u) == pool[(u % Len(pool)) + 1]

DidntCatch ==
    <<"I", " ", "d", "i", "d", "n", "'", "t", " ", "q", "u", "i", "t", "e", " ", "c", "a", "t",
      "c", "h", " ", "t", "h", "a", "t", ".", " ", "C", "o", "u", "l", "d", " ", "y", "o", "u",
      " ", "s", "a", "y", " ", "t", "h", "a", "t", " ", "a", "g", "a", "i", "n", "?">>
\* variety_responses, simple_provider.py:117-121
variety_responses ==
    <<<<"W", "e", "'", "v", "e", " ", "b", "e", "e", "n", " ", "c", "h", "a", "t", "t", "i", "n", "g", " ", "f", "o", "r", " ", "a", " ", "w", "h", "i", "l", "e", "!", " ">>,
      <<"I", "'", "m", " ", "e", "n", "j", "o", "y", "i", "n", "g", " ", "o", "u", "r", " ", "c", "o", "n", "v", "e", "r", "s", "a", "t", "i", "o", "n", "!", " ">>,
      <<"T", "h", "i", "s", " ", "h", "a", "s", " ", "b", "e", "e", "n", " ", "a", " ", "g", "r", "e", "a", "t", " ", "c", "h", "a", "t", "!", " ">>>>
VarietyThreshold == 10     \* simple_provider.py:116
\* the try block testing the message as typed, without strip()
chat_try_noStrip(msg, hist, rand) ==
    IF msg = <<>> \/ Len(msg) < 2
    THEN [raised |-> FALSE, text |-> DidntCatch, picked |-> <<>>]
    ELSE LET found == find_user_name(hist)
             category == classify_message(msg)
             chosen == choice(responses[category], rand.pick)
             reply == personalize(chosen, found.name, category)
         IN  IF found.raised
             THEN [raised |-> TRUE, text |-> found.name, picked |-> <<>>]
             ELSE [raised |-> FALSE, picked |-> chosen,
                   text |-> IF Len(hist) > VarietyThreshold /\ rand.chance
                            THEN choice(variety_responses, rand.variety) \o reply
                            ELSE reply]

\* the try block of chat, simple_provider.py:107-128
chat_try(msg, hist, rand) ==
    IF strip(msg) = <<>> \/ Len(strip(msg)) < 2
    THEN [raised |-> FALSE, text |-> DidntCatch, picked |-> <<>>]
    ELSE LET found == find_user_name(hist)
             category == classify_message(msg)
             chosen == choice(responses[category], rand.pick)
             reply == personalize(chosen, found.name, category)
         IN  IF found.raised
             THEN [raised |-> TRUE, text |-> found.name, picked |-> <<>>]
             ELSE [raised |-> FALSE, picked |-> chosen,
                   text |-> IF Len(hist) > VarietyThreshold /\ rand.chance
                            THEN choice(variety_responses, rand.variety) \o reply
                            ELSE reply]

\* the body of chat with its except branch removed
simple_chat_noExcept(msg, hist, rand) ==
    LET r == chat_try(msg, hist, rand)
    IN  [raised |-> r.raised, picked |-> r.picked,
         text |-> IF r.raised THEN <<>> ELSE r.text]

\* SimpleProvider.chat, simple_provider.py:105-128
simple_chat(msg, hist, rand) ==
    LET r == chat_try(msg, hist, rand)
    IN  IF r.raised
        THEN [raised |-> FALSE, picked |-> <<>>,
              text |-> <<"I", " ", "e", "n", "c", "o", "u", "n", "t", "e", "r", "e", "d", " ", "a", "n", " ", "e", "r", "r", "o", "r", ":", " ">> \o r.text
                       \o <<".", " ", "L", "e", "t", "'", "s", " ", "t", "r", "y", " ", "a", "g", "a", "i", "n", "!">>]
        ELSE r

(***************************************************************************)
(* One SimpleProvider.chat call on a message and a history.                *)
(***************************************************************************)
MaxFill == 5      \* turns that may follow the turn carrying the name

Turn(role, content) == [role |-> role, content |-> content]
NameTurn == Turn("user", <<"m", "y", " ", "n", "a", "m", "e", " ", "i", "s", " ", "S", "a", "m">>)
\* n turns without a name, roles alternating
Filler(n) ==
    [i \in 1..n |-> Turn(IF i % 2 = 1 THEN "assistant" ELSE "user", <<"o", "k">>)]

\* The message arguments tried.
Messages ==
    {<<>>,
     <<" ", " ", " ">>,
     <<" ", "a", " ">>,
     <<"h", "e", "l", "l", "o">>,
     <<"H", "e", "l", "l", "o", " ", "t", "h", "e", "r", "e">>,
     <<"h", "i", ",", " ", "b", "y", "e">>,
     <<"s", "e", "e", " ", "y", "o", "u", " ", "l", "a", "t", "e", "r">>,
     <<"h", "e", "y", " ", "h", "o", "w", " ", "a", "r", "e", " ", "y", "o", "u">>,
     <<"H", "o", "w", " ", "a", "r", "e", " ", "y", "o", "u">>,
     <<"w", "h", "o", " ", "a", "r", "e", " ", "y", "o", "u">>,
     <<"h", "e", "l", "p", " ", "m", "e", " ", "d", "e", "b", "u", "g">>,
     <<"I", "'", "m", " ", "w", "o", "r", "k", "i", "n", "g", " ", "o", "n", " ", "P", "y", "t", "h", "o", "n", " ", "c", "o", "d", "e">>,
     <<"w", "h", "a", "t", " ", "i", "s", " ", "a", " ", "l", "o", "o", "p">>,
     <<"t", "h", "i", "s", " ", "i", "s", " ", "n", "i", "c", "e">>,
     <<"c", "+", "+">>,
     <<"c", "+", "+", "x">>}

\* The history arguments tried.
Histories ==
    {Filler(n) : n \in {0, VarietyThreshold, VarietyThreshold + 1}}
    \cup {<<NameTurn>> \o Filler(k) : k \in 0..MaxFill}
    \cup {<<NameTurn, Turn("assistant", <<"o", "k">>),
            Turn("user", <<"I", "'", "m", " ", "w", "o", "r", "k", "i", "n", "g", " ", "o", "n", " ", "P", "y", "t", "h", "o", "n", " ", "c", "o", "d", "e">>)>>,
          <<Turn("user", <<"C", "a", "l", "l", " ", "m", "e", " ", " ", " ", "A", "l", "_", "2", ",", " ", "p", "l", "e", "a", "s", "e">>)>>,
          <<Turn("assistant", <<"m", "y", " ", "n", "a", "m", "e", " ", "i", "s", " ", "B", "o", "t">>)>>,
          <<Turn("user", <<"h", "i">>), [role |-> "user"]>>}

simpleFrozen == <<cmVars, clientVars, pc, envVars, startVars, loopVars, message,
                  chatHistory, generated_text, api_error, clock, last_request_time,
                  current_time, requests>>

\* provider.chat(message, history) with the random numbers it draws
SimpleChat ==
    /\ ppc = "ready"
    \* random.random() is called for a long history only, and the second
    \* random.choice only when it came out below 0.3
    /\ \E pick \in 0..(Len(responses["default"]) - 1),
          chance \in (IF Len(chatHistory) > VarietyThreshold THEN BOOLEAN ELSE {FALSE}) :
       \E variety \in (IF chance THEN 0..(Len(variety_responses) - 1) ELSE {0}) :
          LET r == simple_chat(message, chatHistory,
                               [pick |-> pick, chance |-> chance, variety |-> variety])
          IN  /\ response' = r.text
              /\ picked' = r.picked
              /\ ppc' = IF r.raised THEN "raised" ELSE "returned"
    /\ UNCHANGED simpleFrozen

InitSimple ==
    /\ SessionIdle /\ ProgIdle
    /\ ppc = "ready"
    /\ message \in Messages
    /\ chatHistory \in Histories
    /\ response = <<>> /\ picked = <<>> /\ generated_text = <<>> /\ api_error = <<>>
    /\ clock = 0 /\ last_request_time = 0 /\ current_time = 0 /\ requests = <<>>

NextSimple == SimpleChat

SpecSimple == InitSimple /\ [][NextSimple]_vars

(***************************************************************************)
(* Properties of the rule-based variant (checked under SpecSimple).        *)
(***************************************************************************)
WellFormed(hist) == \A i \in 1..Len(hist) : DOMAIN hist[i] = {"role", "content"}
InPool(text, category) ==
    \E i \in 1..Len(responses[category]) : responses[category][i] = text

\* C15: is_available() is true, and every chat call returns a non-empty
\* string and does not raise, whatever the message and the history.
C15_SimpleTotal ==
    /\ IsAvailableValues("simple") = {TRUE}
    /\ ppc # "ready" => ppc = "returned" /\ Len(response) > 0

\* A reply with a variety prefix for a history of eleven turns.
C15_Witness ==
    /\ ppc = "returned" /\ Len(chatHistory) = 11 /\ Len(strip(message)) >= 2
    /\ Len(response) > Len(picked) /\ picked # <<>>

\* C16: an empty or whitespace-only message gets exactly
\* "I didn't quite catch that. Could you say that again?".
C16_BlankMessage ==
    ppc # "ready" /\ (\A i \in 1..Len(message) : IsSpace(message[i])) =>
        /\ ppc = "returned"
        /\ response =
             <<"I", " ", "d", "i", "d", "n", "'", "t", " ", "q", "u", "i", "t", "e", " ", "c", "a",
               "t", "c", "h", " ", "t", "h", "a", "t", ".", " ", "C", "o", "u", "l", "d", " ", "y",
               "o", "u", " ", "s", "a", "y", " ", "t", "h", "a", "t", " ", "a", "g", "a", "i", "n",
               "?">>

\* A message of three blanks was answered.
C16_Witness ==
    ppc = "returned" /\ message = <<" ", " ", " ">> /\ response = DidntCatch

CategoryOrder == <<"greeting", "goodbye", "how_are_you", "name", "help", "programming">>
Matches(category, msg) ==
    \E low \in {lower(msg)} : \E k \in 1..Len(patterns) :
        patterns[k].category = category /\ re_search_words(low, patterns[k].words)
FirstCategory(msg) ==
    LET hits == {i \in 1..Len(CategoryOrder) : Matches(CategoryOrder[i], msg)}
    IN  IF hits = {} THEN "default"
        ELSE CategoryOrder[CHOOSE i \in hits : \A j \in hits : i <= j]
OnlyProgramming(msg) ==
    \A i \in 1..Len(CategoryOrder) :
        Matches(CategoryOrder[i], msg) <=> CategoryOrder[i] = "programming"
NoNameIn(hist) ==
    \A i \in 1..Len(hist) :
        hist[i].role = "user" => re_search_name(hist[i].content) = <<>>

\* C17: for a message of at least two characters after trimming and a
\* history of at most 10 turns in which no user turn introduces a name, the
\* reply is an entry of the pool of the first category, in the order
\* greeting, goodbye, how_are_you, name, help, programming, whose keywords
\* the message matches, or of the default pool when none matches; 'hello'
\* gets a greeting; a message matching programming keywords only gets a reply
\* that contains 'programming' or 'code' (compared in lower case, as
\* test_chatbot.py does).
C17_FirstCategoryPool ==
    (/\ ppc # "ready" /\ Len(strip(message)) >= 2
     /\ WellFormed(chatHistory) /\ Len(chatHistory) <= 10 /\ NoNameIn(chatHistory)) =>
        /\ ppc = "returned"
        /\ InPool(response, FirstCategory(message))
        /\ message = <<"h", "e", "l", "l", "o">> => InPool(response, "greeting")
        /\ OnlyProgramming(message) =>
              \/ Contains(lower(response), <<"p", "r", "o", "g", "r", "a", "m", "m", "i", "n", "g">>)
              \/ Contains(lower(response), <<"c", "o", "d", "e">>)

\* A message with a help keyword and a programming keyword got a help reply.
C17_Witness ==
    /\ ppc = "returned" /\ Len(chatHistory) = 10
    /\ Matches("help", message) /\ Matches("programming", message)
    /\ InPool(response, "help")

HasNameTurn(hist) == \E i \in 1..Len(hist) : hist[i] = NameTurn
\* the pool entry addresses the user with one of the phrases that
\* _get_contextual_response completes with the name
HasPlaceholder(text) ==
    \/ Contains(text, <<"H", "o", "w", " ", "a", "r", "e", " ", "y", "o", "u">>)
    \/ Contains(text, <<"H", "o", "w", " ", "a", "b", "o", "u", "t", " ", "y", "o", "u">>)

MaxPieces == 4     \* pieces a generated text is put together from

\* offset of the first occurrence of sep in text (-1: none), as str.find
find(text, sep) ==
    LET at == {i \in 0..(Len(text) - Len(sep)) : SubSeq(text, i + 1, i + Len(sep)) = sep}
    IN  IF at = {} THEN 0 - 1 ELSE CHOOSE i \in at : \A j \in at : i <= j
\* text.split(sep)[0]
split_first(text, sep) ==
    IF find(text, sep) < 0 THEN text ELSE SubSeq(text, 1, find(text, sep))
\* text.split(sep)[-1]
RECURSIVE split_last(_, _)
split_last(text, sep) ==
    IF find(text, sep) < 0 THEN text
    ELSE split_last(SubSeq(text, find(text, sep) + Len(sep) + 1, Len(text)), sep)

NotSureReply ==
    <<"I", "'", "m", " ", "n", "o", "t", " ", "s", "u", "r", "e", " ", "h", "o", "w", " ", "t",
      "o", " ", "r", "e", "s", "p", "o", "n", "d", " ", "t", "o", " ", "t", "h", "a", "t", ".",
      " ", "C", "o", "u", "l", "d", " ", "y", "o", "u", " ", "t", "r", "y", " ", "r", "e", "p",
      "h", "r", "a", "s", "i", "n", "g", " ", "y", "o", "u", "r", " ", "q", "u", "e", "s", "t",
      "i", "o", "n", "?">>
TroubleReply ==
    <<"I", "'", "m", " ", "h", "a", "v", "i", "n", "g", " ", "t", "r", "o", "u", "b", "l", "e",
      " ", "g", "e", "n", "e", "r", "a", "t", "i", "n", "g", " ", "a", " ", "r", "e", "s", "p",
      "o", "n", "s", "e", ".", " ", "P", "l", "e", "a", "s", "e", " ", "t", "r", "y", " ", "a",
      "g", "a", "i", "n", ".">>

\* the text after the first occurrence of sep
StartAfterFirst(text, sep) ==
    IF find(text, sep) < 0 THEN text
    ELSE SubSeq(text, find(text, sep) + Len(sep) + 1, Len(text))

\* the extraction taking the text after the first marker
hf_extract_firstMarker(text) ==
    IF Contains(text, <<"A", "s", "s", "i", "s", "t", "a", "n", "t", ":">>)
    THEN LET r1 == strip(StartAfterFirst(text, <<"A", "s", "s", "i", "s", "t", "a", "n", "t", ":">>))
             r2 == strip(split_first(r1, <<"H", "u", "m", "a", "n", ":">>))
             r3 == strip(split_first(r2, <<"\n">>))
         IN  IF r3 = <<>> THEN NotSureReply ELSE r3
    ELSE TroubleReply

\* chat, huggingface_provider.py:111-126: the reply for a generated text
hf_extract(text) ==
    IF Contains(text, <<"A", "s", "s", "i", "s", "t", "a", "n", "t", ":">>)
    THEN LET r1 == strip(split_last(text, <<"A", "s", "s", "i", "s", "t", "a", "n", "t", ":">>))
             r2 == strip(split_first(r1, <<"H", "u", "m", "a", "n", ":">>))
             r3 == strip(split_first(r2, <<"\n">>))
         IN  IF r3 = <<>> THEN NotSureReply ELSE r3
    ELSE TroubleReply

\* What a generated text is put together from.
Pieces ==
    {<<"A", "s", "s", "i", "s", "t", "a", "n", "t", ":">>,
     <<"H", "u", "m", "a", "n", ":">>,
     <<"\n">>, <<" ">>, <<"o", "k">>,
     <<"S", "u", "r", "e", ",", " ", "h", "e", "r", "e", " ", "y", "o", "u", " ", "g", "o">>}
RECURSIVE Concat(_)
Concat(ps) == IF ps = <<>> THEN <<>> ELSE Head(ps) \o Concat(Tail(ps))
ExampleText ==
    <<"H", "u", "m", "a", "n", ":", " ", "h", "i", "\n", "A", "s", "s", "i", "s", "t", "a", "n",
      "t", ":", " ", "S", "u", "r", "e", ",", " ", "h", "e", "r", "e", " ", "y", "o", "u", " ",
      "g", "o", "\n", "H", "u", "m", "a", "n", ":", " ", "t", "h", "a", "n", "k", "s">>
GeneratedTexts ==
    {Concat(ps) : ps \in UNION {[1..n -> Pieces] : n \in 0..MaxPieces}} \cup {ExampleText}

(***************************************************************************)
(* HuggingFaceProvider._format_conversation: the prompt given to the        *)
(* generator.                                                               *)
(***************************************************************************)
HFRecentTurns == 6
HumanLabel == <<"H", "u", "m", "a", "n", ":", " ">>
AssistantLabel == <<"A", "s", "s", "i", "s", "t", "a", "n", "t", ":", " ">>
PromptEnd == <<"\n", "A", "s", "s", "i", "s", "t", "a", "n", "t", ":">>

\* the lines of the turns, in order; a turn that is neither user nor assistant
\* adds nothing
RECURSIVE hf_lines(_)
hf_lines(hist) ==
    IF hist = <<>> THEN <<>>
    ELSE LET msg == Head(hist) IN
         (IF msg.role = "user" THEN HumanLabel \o msg.content \o <<"\n">>
          ELSE IF msg.role = "assistant" THEN AssistantLabel \o msg.content \o <<"\n">>
          ELSE <<>>)
         \o hf_lines(Tail(hist))

\* every turn of the history is put into the prompt
hf_format_conversation_wholeHistory(msg, hist) ==
    hf_lines(hist) \o HumanLabel \o msg \o PromptEnd

hf_format_conversation(msg, hist) ==
    LET recent_history ==
            IF Len(hist) > HFRecentTurns THEN PySliceFrom(hist, 0 - HFRecentTurns)
            ELSE hist
    IN  hf_lines(recent_history) \o HumanLabel \o msg \o PromptEnd

\* prompt = self._format_conversation(message, history) of the call looked at
HFPrompt == hf_format_conversation(message, chatHistory)

MaxHFTurns == 8   \* turns in a history argument
\* n turns with contents t1, t2, ..., roles alternating from `first`
HFHistory(n, first) ==
    LET digits == <<"1", "2", "3", "4", "5", "6", "7", "8", "9">> IN
    SubSeq([i \in 1..n |->
               Turn(IF (i % 2 = 1) = (first = "user") THEN "user" ELSE "assistant",
                    <<"t", digits[i]>>)], 1, n)
HFHistories == {HFHistory(n, first) : n \in 0..MaxHFTurns, first \in {"user", "assistant"}}

hfFrozen == <<cmVars, clientVars, pc, envVars, startVars, loopVars, message,
              chatHistory, picked, generated_text, api_error, clock,
              last_request_time, current_time, requests>>

\* chat returns the reply extracted from outputs[0]["generated_text"]
HFChat ==
    /\ ppc = "ready"
    /\ response' = hf_extract(generated_text)
    /\ ppc' = "returned"
    /\ UNCHANGED hfFrozen

InitHF ==
    /\ SessionIdle /\ ProgIdle
    /\ ppc = "ready"
    \* the extraction is tried on every text, the prompt on every history
    /\ \/ /\ generated_text \in GeneratedTexts
          /\ message = <<>> /\ chatHistory = <<>>
       \/ /\ generated_text = ExampleText
          /\ message \in {<<"h", "i">>,
                          <<"w", "h", "a", "t", " ", "i", "s", " ", "t", "1">>}
          /\ chatHistory \in HFHistories
    /\ response = <<>> /\ picked = <<>>
    /\ api_error = <<>>
    /\ clock = 0 /\ last_request_time = 0 /\ current_time = 0 /\ requests = <<>>

NextHF == HFChat

SpecHF == InitHF /\ [][NextHF]_vars

(***************************************************************************)
(* Properties of the local-inference variant (checked under SpecHF).       *)
(***************************************************************************)
\* the text after the last occurrence of marker
AfterLast(text, marker) ==
    LET at == {i \in 0..(Len(text) - Len(marker)) : StartsAt(text, i, marker)}
        last == CHOOSE i \in at : \A j \in at : j <= i
    IN  SubSeq(text, last + Len(marker) + 1, Len(text))
\* text up to the first 'Human:' or newline, whichever comes first
CutAtHumanOrNewline(text) ==
    LET at == {i \in 0..(Len(text) - 1) :
                  StartsAt(text, i, <<"H", "u", "m", "a", "n", ":">>) \/ text[i + 1] = "\n"}
    IN  IF at = {} THEN text
        ELSE SubSeq(text, 1, CHOOSE i \in at : \A j \in at : i <= j)
\* text without its leading white space
LStrip(text) ==
    IF \A i \in 1..Len(text) : IsSpace(text[i]) THEN <<>>
    ELSE SubSeq(text, CHOOSE i \in 1..Len(text) :
                          ~IsSpace(text[i]) /\ \A j \in 1..(i - 1) : IsSpace(text[j]),
                Len(text))
Clean(reply) ==
    /\ reply # <<>>
    /\ ~Contains(reply, <<"\n">>)
    /\ ~Contains(reply, <<"H", "u", "m", "a", "n", ":">>)
    /\ ~Contains(reply, <<"A", "s", "s", "i", "s", "t", "a", "n", "t", ":">>)
HasMarker == ppc = "returned" /\ Contains(generated_text, <<"A", "s", "s", "i", "s", "t", "a", "n", "t", ":">>)

\* C19 as written: for generated text with the marker the reply is the
\* text after the last 'Assistant:' cut at the first following 'Human:' or
\* newline, whichever comes first, and trimmed, or the fixed fallback when
\* that is empty; it is never empty and holds no newline and no marker.
C19_Original ==
    HasMarker =>
        LET cut == strip(CutAtHumanOrNewline(AfterLast(generated_text, <<"A", "s", "s", "i", "s", "t", "a", "n", "t", ":">>)))
        IN  /\ response = IF cut = <<>> THEN NotSureReply ELSE cut
            /\ Clean(response)

\* C19, amended: the white space (newlines included) that follows the last
\* 'Assistant:' is skipped first; the reply is the text from there cut at
\* the first following 'Human:' or newline, whichever comes first, and
\* trimmed, or the fixed non-empty fallback when that is empty; it is never
\* empty and holds no newline, no 'Human:' and no 'Assistant:'.
C19_Extraction ==
    HasMarker =>
        LET cut == strip(CutAtHumanOrNewline(LStrip(AfterLast(generated_text,
                                                              <<"A", "s", "s", "i", "s", "t", "a", "n", "t", ":">>))))
        IN  /\ response = IF cut = <<>> THEN NotSureReply ELSE cut
            /\ Clean(response)
            /\ NotSureReply # <<>>

\* 'Human: hi\nAssistant: Sure, here you go\nHuman: thanks' gave
\* 'Sure, here you go'.
C19_Witness ==
    /\ ppc = "returned" /\ generated_text = ExampleText
    /\ response = <<"S", "u", "r", "e", ",", " ", "h", "e", "r", "e", " ", "y", "o", "u", " ", "g", "o">>

(***************************************************************************)
(* Further properties of the caller loop (checked under Spec).             *)
(***************************************************************************)
\* C21: a save line never ends the loop and never changes the session: whether
\* the file is written or the write fails, a message is shown (nothing to save
\* exactly when the session is empty), the next line is awaited with running
\* still set, no provider call is made and the session holds the turns it held.
C21_SaveIsLocal ==
    [][(ReadStep /\ Word(lastInput') = W_save)
          => /\ running' /\ pc' = "AwaitingInput" /\ exitCode' = exitCode
             /\ Session' = Session /\ turns' = turns /\ calls' = calls
             /\ console' \in {"nothing_to_save", "saved", "save_error"}
             /\ (console' = "nothing_to_save") <=> (Session = <<>>)]_vars

\* a save whose write failed, on a session that holds turns
C21_Witness ==
    /\ Word(lastInput) = W_save /\ console = "save_error"
    /\ pc = "AwaitingInput" /\ running /\ Len(Session) > 0

(***************************************************************************)
(* A client that also writes into the turn records it finds in a returned  *)
(* list.  get_history copies the list, not the dicts in it, so the record   *)
(* written to is the one the session holds.                                *)
(***************************************************************************)
\* returned[i]["content"] = "Z"
ClientEdit ==
    \E i \in 1..(IF held = 0 THEN 0 ELSE Len(heap[held])) :
        /\ ops < MaxOps
        /\ heap[held][i] # 0
        /\ turns' = [turns EXCEPT ![heap[held][i]].content = <<"Z">>]
        /\ lastOp' = "edit" /\ ops' = ops + 1
        /\ UNCHANGED <<history, max_history, heap, held, log, progVars>>

NextCMEdit ==
    \/ NextCM
    \/ ClientEdit

SpecCMEdit == InitCM /\ [][NextCMEdit]_vars

\* C22: a stored turn keeps the role and content it was added with for as
\* long as it stays in the session, whatever add_message, clear_history and
\* get_history calls follow and whatever the caller does to the turn records of
\* a returned list.
C22_TurnImmutable ==
    \A i \in 1..Len(heap[history]) :
        turns[heap[history][i]] = AddsFrom(1)[heap[history][i]]

(***************************************************************************)
(* A further property of ConversationManager (checked under SpecCM).       *)
(***************************************************************************)
\* C27: a ConversationManager constructed with bound 0 respects the bound
\* too: after every add_message the session holds at most 0 turns, so it stays
\* empty however many turns are added.
C27_ZeroBound == max_history = 0 => Len(Session) = 0

(***************************************************************************)
(* GeminiProvider._format_conversation: the history argument of start_chat. *)
(***************************************************************************)
\* the loop runs over the whole history, the current message included
gemini_format_conversation_wholeHistory(msg, hist) ==
    LET kept == SelectSeq(hist, LAMBDA m : m.role \in {"user", "assistant"})
    IN  [i \in 1..Len(kept) |->
            [role  |-> IF kept[i].role = "user" THEN "user" ELSE "model",
             parts |-> <<kept[i].content>>]]

gemini_format_conversation(msg, hist) ==
    LET \* for msg in history[:-1]
        body == SubSeq(hist, 1, Len(hist) - 1)
        \* a turn that is neither user nor assistant is skipped
        kept == SelectSeq(body, LAMBDA m : m.role \in {"user", "assistant"})
    IN  [i \in 1..Len(kept) |->
            [role  |-> IF kept[i].role = "user" THEN "user" ELSE "model",
             parts |-> <<kept[i].content>>]]

\* What the remote-API variant passes to start_chat(history=...) in the call the
\* loop is waiting for.
GeminiHistory == gemini_format_conversation(callMessage, TurnsOf(heap, callHistory))
\* The same turn as the remote service is given it.
GeminiEntry(turn) ==
    [role |-> IF turn.role = "user" THEN "user" ELSE "model", parts |-> <<turn.content>>]
GeminiCall == provider = "gemini" /\ pc = "Processing"

\* C23: in the caller loop, the history the remote-API variant hands to the
\* remote service is every session turn except the current user message (the
\* last turn), in session order, user as 'user' and assistant as 'model'; the
\* current message is the separate argument of the one call.
C23_GeminiHistory ==
    GeminiCall =>
        /\ Len(Session) >= 1 /\ LastTurn(Session) = UserTurn(callMessage)
        /\ Len(GeminiHistory) = Len(Session) - 1
        /\ \A i \in 1..(Len(Session) - 1) :
              /\ Session[i].role \in {"user", "assistant"}
              /\ GeminiHistory[i] = GeminiEntry(Session[i])

\* a second message: the history holds the first message and its reply
C23_Witness ==
    /\ GeminiCall /\ calls = 2 /\ Len(GeminiHistory) = 2
    /\ GeminiHistory[1].role = "user" /\ GeminiHistory[2].role = "model"

\* C26: in the caller loop with the remote-API variant and a session bound of
\* at least 2, the history handed to the remote service begins with a 'user'
\* entry and alternates 'user' / 'model' strictly, also once the session has
\* begun to evict its oldest turns.
C26_GeminiAlternates ==
    (GeminiCall /\ max_history >= 2) =>
        \A i \in 1..Len(GeminiHistory) :
            GeminiHistory[i].role = IF i % 2 = 1 THEN "user" ELSE "model"

\* The turns of the history that go into the prompt, and the line of a turn,
\* as the description of the prompt has them.
PromptWindow == LastK(chatHistory, Min(HFRecentTurns, Len(chatHistory)))
PromptLine(turn) ==
    (IF turn.role = "user" THEN HumanLabel ELSE AssistantLabel) \o turn.content \o <<"\n">>

\* C24: the prompt is the lines of the (at most) 6 most recent turns of the
\* given history, in order, a 'Human: ' line for a user turn and an
\* 'Assistant: ' line for an assistant turn, then 'Human: <message>' and a last
\* line 'Assistant:' with nothing after it; the line of an older turn is not
\* in the prompt.
C24_PromptWindow ==
    ppc = "returned" =>
        /\ Len(PromptWindow) <= HFRecentTurns
        /\ HFPrompt = Concat(SubSeq([i \in 1..Len(PromptWindow) |-> PromptLine(PromptWindow[i])],
                                    1, Len(PromptWindow)))
                      \o HumanLabel \o message \o <<"\n">>
                      \o <<"A", "s", "s", "i", "s", "t", "a", "n", "t", ":">>
        /\ \A i \in 1..(Len(chatHistory) - HFRecentTurns) :
              ~Contains(HFPrompt, PromptLine(chatHistory[i]))

\* a history of more than 6 turns: the prompt starts with the line of the
\* sixth turn from the end
C24_Witness ==
    /\ ppc = "returned" /\ Len(chatHistory) = HFRecentTurns + 2
    /\ chatHistory[3].role = "user"
    /\ StartsAt(HFPrompt, 0, HumanLabel \o chatHistory[3].content \o <<"\n">>)
    /\ ~Contains(HFPrompt, PromptLine(chatHistory[2]))

(***************************************************************************)
(* The local-inference variant in the caller loop (checked under Spec).    *)
(***************************************************************************)
\* The prompt the local-inference variant builds in the call the loop is
\* waiting for.
HFLoopPrompt ==
    hf_format_conversation(callMessage,
        SubSeq(TurnsOf(heap, callHistory), 1, Len(heap[callHistory])))
HFCall == provider = "huggingface" /\ pc = "Processing"
\* How many times `sub` occurs in `text`.
Occurrences(text, sub) ==
    Cardinality({i \in 0..(Len(text) - Len(sub)) : StartsAt(text, i, sub)})

\* C25: in the caller loop with the local-inference variant, the prompt built
\* for a chat message holds the line 'Human: <message>' exactly once, as the last
\* line before the final 'Assistant:'.
C25_MessageOnce ==
    HFCall =>
        LET line == HumanLabel \o callMessage \o <<"\n">>
            end  == line \o <<"A", "s", "s", "i", "s", "t", "a", "n", "t", ":">>
        IN  /\ Occurrences(HFLoopPrompt, line) = 1
            /\ StartsAt(HFLoopPrompt, Len(HFLoopPrompt) - Len(end), end)

\* C28: a provider of one of the three classes whose construction returned is
\* available for the rest of the process, so a chatbot started through main
\* never takes the 'AI provider is not available' return of chat_loop: the
\* welcome is followed by the first prompt.
C28_AvailableAfterConstruction ==
    [][(entry = "main" /\ provider \in KnownProviders)
          => /\ is_available(provider)
             /\ console' # "unavailable"
             /\ pc = "ChatLoop" => (pc' = "AwaitingInput" /\ console' = "welcome")]_vars

\* the first prompt of a session with the remote-API variant
C28_Witness ==
    /\ entry = "main" /\ provider = "gemini" /\ is_available(provider)
    /\ pc = "AwaitingInput" /\ prompts = 0 /\ console = "welcome"

\* C29: the provider the config command shows (config.ai_provider) is the
\* provider answering in the session, for every command-line flag and
\* AI_PROVIDER value the session was started with.
C29_ConfigShowsProvider ==
    (entry = "main" /\ console = "config") => configProvider = provider

(***************************************************************************)
(* The rule-based variant in the caller loop: ChatBot(SimpleProvider())    *)
(* with a session bound around the provider's threshold of 10 turns, fed    *)
(* chat messages only.                                                      *)
(***************************************************************************)
MaxChats == 6    \* chat messages in a session
MaxPick == 1     \* largest random draw tried for random.choice(pool)

\* chatbot.py:205-216: the line read is the chat message 'hi'
SimpleReadMessage ==
    LET r == add_message("user", InHi) IN
    /\ pc = "AwaitingInput" /\ provider = "simple" /\ calls < MaxChats
    /\ prompts' = prompts + 1 /\ lastInput' = InHi
    /\ history' = r.history /\ heap' = r.heap /\ turns' = r.turns
    /\ pc' = "Thinking"
    /\ UNCHANGED <<max_history, clientVars, envVars, providerVars, startVars,
                   running, signal, calls, callMessage, callHistory, outcome,
                   console>>

\* chatbot.py:222-229 with SimpleProvider.chat: the reply is computed from the
\* message and the history handed over, and appended as the assistant turn
SimpleReturns ==
    /\ pc = "Processing" /\ provider = "simple"
    /\ \E pick \in 0..MaxPick,
          chance \in (IF Len(heap[callHistory]) > VarietyThreshold THEN BOOLEAN ELSE {FALSE}) :
       \E variety \in (IF chance THEN 0..(Len(variety_responses) - 1) ELSE {0}) :
       \E hist \in {SubSeq(TurnsOf(heap, callHistory), 1, Len(heap[callHistory]))} :
       \E r \in {simple_chat(callMessage, hist,
                             [pick |-> pick, chance |-> chance, variety |-> variety])} :
          LET a == add_message("assistant", r.text) IN
          /\ message' = callMessage /\ chatHistory' = hist
          /\ response' = r.text /\ picked' = r.picked /\ ppc' = "returned"
          /\ history' = a.history /\ heap' = a.heap /\ turns' = a.turns
    /\ outcome' = "reply" /\ console' = "reply"
    /\ pc' = LoopHead(running)
    /\ UNCHANGED <<max_history, clientVars, envVars, startVars, running, prompts,
                   lastInput, signal, calls, callMessage, callHistory,
                   generated_text, api_error, clock, last_request_time,
                   current_time, requests>>

\* python chatbot.py --provider simple, at its first prompt; MAX_HISTORY unset
\* or 9, 10, 11
InitSimpleLoop ==
    /\ entry = "main" /\ flag = "simple" /\ envProvider = "<unset>"
    /\ envMaxHistory \in {<<>>} \cup {<<n>> : n \in (VarietyThreshold - 1)..(VarietyThreshold + 1)}
    /\ envTemperature = <<>> /\ envApiKey = <<>> /\ world = GoodWorld
    /\ configProvider = DefaultConfigProvider /\ configTemperature = DefaultTemperature
    /\ provider = "simple" /\ attempted = "simple" /\ hfLoads = <<>> /\ exitCode = -1
    /\ max_history = GetEnv(envMaxHistory, DefaultMaxHistory)
    /\ history = 1 /\ heap = << <<>> >> /\ turns = <<>>
    /\ held = 0 /\ log = <<>> /\ lastOp = "init" /\ ops = 0
    /\ pc = "AwaitingInput" /\ running = TRUE
    /\ prompts = 0 /\ lastInput = <<>> /\ signal = "none"
    /\ calls = 0 /\ callMessage = <<>> /\ callHistory = 0
    /\ outcome = "none" /\ console = "welcome"
    /\ ProvidersIdle

NextSimpleLoop ==
    \/ SimpleReadMessage
    \/ CallProvider
    \/ SimpleReturns

SpecSimpleLoop == InitSimpleLoop /\ [][NextSimpleLoop]_vars

\* The reply begins with one of the conversation-length prefixes.
VarietyPrefixed(text) ==
    \E i \in 1..Len(variety_responses) : StartsAt(text, 0, variety_responses[i])

\* C30: with the rule-based variant in the caller loop and a session bound of
\* at most 10, the history passed to chat never has more than 10 turns and no
\* reply begins with a conversation-length prefix.
C30_NoPrefixUpToTen ==
    max_history <= VarietyThreshold =>
        /\ pc = "Processing" => Len(heap[callHistory]) <= VarietyThreshold
        /\ ppc = "returned" => ~VarietyPrefixed(response)

\* bound 10, a call with a full history of 10 turns, answered without prefix
C30_Witness ==
    /\ max_history = VarietyThreshold /\ ppc = "returned" /\ pc = "AwaitingInput"
    /\ Len(chatHistory) = VarietyThreshold /\ response # <<>>
    /\ ~VarietyPrefixed(response)

====
